---- MODULE Spec2Model ----
(***************************************************************************)
(* State-machine model of the OrderFlow service: the bounded TTL order     *)
(* cache (internal/cache), and the ingest pipeline built from the message  *)
(* handler (cmd/service), the retry executor (internal/retry), the store   *)
(* (internal/db), the dead-letter sink (internal/dlq) and the broker       *)
(* consumer loop (internal/kafka); each on its own, the retry executor     *)
(* (internal/retry), the circuit breaker behind its HTTP adapter           *)
(* (internal/circuitbreaker), the token-bucket and fixed-window limiters   *)
(* (ratelimit) and the lifecycle manager (internal/lifecycle); the HTTP    *)
(* server (internal/http) over cache and store; the shutdown of main next  *)
(* to the consumer goroutine and the dead-letter processor; the order      *)
(* validator (internal/validator) with machine-width sums; and the cache   *)
(* at the level of its two mutexes.                                        *)
(***************************************************************************)
EXTENDS Integers, Sequences, FiniteSets, TLC

(***************************************************************************)
(* Bounds of the model and configuration values.                           *)
(***************************************************************************)
\* OrderCache.maxSize (NewOrderCache argument)
MaxSize == 2
\* OrderCache.ttl in clock ticks (NewOrderCache argument)
Ttl == 1
\* the clock runs over 0..MaxTime
MaxTime == 2
\* number of cache API calls in one behaviour
MaxOps == 3

\* goroutines calling Get concurrently
Threads == {1, 2}

\* order_uid values; "" is the empty uid that Set and LoadAll skip
UIDs == {"a", "b", "c"}

(***************************************************************************)
(* *model.Order values: nil, an order with an empty uid, and orders that   *)
(* differ in uid or in content (ver).                                      *)
(***************************************************************************)
Item(c, p) == [chrt_id |-> c, total_price |-> p]
NilOrder ==
    [nil |-> TRUE, uid |-> "", ver |-> 0, fmtOk |-> FALSE, transaction |-> "",
     amount |-> 0, goods_total |-> 0, delivery_cost |-> 0, items |-> <<>>]
\* a well-formed order with uid u; ver tells two documents of one uid apart
MkOrder(u, v) ==
    [nil |-> FALSE, uid |-> u, ver |-> v, fmtOk |-> TRUE, transaction |-> u,
     amount |-> v + 2, goods_total |-> v + 1, delivery_cost |-> 1,
     items |-> <<Item(1, v), Item(2, 1)>>]
Orders ==
    {NilOrder, MkOrder("", 1), MkOrder("a", 1), MkOrder("a", 2),
     MkOrder("b", 1), MkOrder("c", 1)}

\* slices handed to LoadAll
LoadInputs ==
    { <<>>,
      <<MkOrder("a", 1), MkOrder("b", 1)>>,
      <<MkOrder("a", 1), MkOrder("b", 1), MkOrder("c", 1), MkOrder("d", 1)>>,
      <<MkOrder("b", 1), NilOrder, MkOrder("", 1), MkOrder("a", 2)>> }

VARIABLES
    orders,         \* OrderCache.orders: uid -> cacheEntry (a function on the keys present)
    insOrder,       \* history: the keys present, in the order their entries were inserted
    now,            \* the clock read by time.Now()
    hits, misses, evictions, expirations,   \* OrderCache.stats
    getPc,          \* per goroutine: position inside Get
    getUid,         \* per goroutine: Get's argument
    getEntry,       \* per goroutine: the *cacheEntry Get read from the map
    ops,            \* number of cache API calls started
    expiredRemoved, \* history: entries removed from the map while older than ttl
    lastOp,         \* history: the cache API call that completed last
    lastGet,        \* history: the outcome of the Get that completed last
    pending         \* history: the Set whose order no later call has touched yet

cacheVars ==
    <<orders, insOrder, now, hits, misses, evictions, expirations, getPc, getUid,
      getEntry, ops, expiredRemoved, lastOp, lastGet, pending>>

VARIABLES
    dbOrders,       \* table orders: order_uid (primary key) -> row
    dbDelivery,     \* table delivery: order_uid (primary key) -> row
    dbPayment,      \* table payment: transaction (primary key) -> row
    dbItems,        \* table items: the rows in the order of their serial id
    ctxDone,        \* the consumer context has been cancelled
    cPc,            \* Consumer.ReadMessages: "read", "handle" or "returned"
    cRet,           \* the error ReadMessages returned
    msgsRead,       \* number of messages the broker has delivered
    sawReadErr,     \* history: a broker read failed while the context was live
    hPc,            \* HandleMessage: position inside processMessage and the retry loop
    hMsg,           \* HandleMessage's msg
    hOrder,         \* processMessage's decoded order
    attempt,        \* ExecuteWithRetry's attempt
    lastErr,        \* ExecuteWithRetry's lastErr
    retryErr,       \* the error ExecuteWithRetry returned
    trace,          \* history: the steps run for hMsg, as <<attempt, step>> pairs
    dlqSubmitted,   \* history: the SendToDLQ calls, as [message, reason]
    dlqTopic,       \* the envelopes published to the DLQ topic
    handled         \* history: the outcome of the HandleMessage that returned last

dbVars == <<dbOrders, dbDelivery, dbPayment, dbItems>>
consumerVars == <<ctxDone, cPc, cRet, msgsRead, sawReadErr>>
handlerVars ==
    <<hPc, hMsg, hOrder, attempt, lastErr, retryErr, trace, dlqSubmitted, dlqTopic, handled>>
ingestVars == <<dbVars, consumerVars, handlerVars>>

VARIABLES
    rCfg,           \* RetryService.config: maxAttempts, initialDelay, multiplier, maxDelay
    rCtxAware,      \* TRUE: ExecuteWithRetryContext is running, FALSE: ExecuteWithRetry
    rPc,            \* the executor's position: "attempt", "sleep" or "done"
    rAttempt,       \* the loop variable attempt
    rLastErr,       \* the local lastErr
    rRet,           \* the error the executor returned
    rCtxDone,       \* the ctx handed to ExecuteWithRetryContext has been cancelled
    rLog            \* history: the invocations of operation and the sleeps, in order

retryVars == <<rCfg, rCtxAware, rPc, rAttempt, rLastErr, rRet, rCtxDone, rLog>>

VARIABLES
    cbConfig,       \* CircuitBreaker.config
    cbState,        \* CircuitBreaker.state
    failureCount,   \* CircuitBreaker.failureCount
    successCount,   \* CircuitBreaker.successCount
    requestCount,   \* CircuitBreaker.requestCount
    nextAttempt,    \* CircuitBreaker.nextAttempt
    cbNow,          \* the clock read by the breaker's time.Now()
    ePc,            \* per caller: position inside HTTPMiddleware.Handler / Execute
    eCheck,         \* per caller: what its checkAndUpdateState call found
    failBudget,     \* number of downstream failures still to come
    closedRun,      \* history: failures recorded in a row while Closed
    hoStarted,      \* history: ops admitted in the current Half-Open episode
    lastCall        \* history: the breaker call that completed last, and its outcome

breakerVars ==
    <<cbConfig, cbState, failureCount, successCount, requestCount, nextAttempt,
      cbNow, ePc, eCheck, failBudget, closedRun, hoStarted, lastCall>>

VARIABLES
    tbConfig,       \* TokenBucket.config: requests, window, burst
    buckets,        \* TokenBucket.buckets: key -> bucket (a function on the keys present)
    tbNow,          \* the clock read by the limiter's time.Now()
    tbOps,          \* number of limiter API calls made
    admitted,       \* history: per key, the times at which Allow returned true
    algorithm,      \* the algorithm NewRateLimiter was called with
    windows,        \* FixedWindow.windows: key -> window (a function on the keys present)
    lastSeen,       \* history: per key, the time of its last Allow call
    lastLim         \* history: the limiter call that completed last

limiterVars ==
    <<tbConfig, buckets, tbNow, tbOps, admitted, algorithm, windows, lastSeen, lastLim>>

VARIABLES
    aPc,            \* per goroutine: position inside Server.handleGetOrder
    aUid,           \* per goroutine: handleGetOrder's orderUID
    aOrder,         \* per goroutine: the dbOrder GetOrderByUID returned
    apiOps,         \* number of HTTP requests started
    lastResp,       \* history: the HTTP response written last, and how it came about
    lastFill        \* history: the order the read path put into the cache last

apiVars == <<aPc, aUid, aOrder, apiOps, lastResp, lastFill>>

VARIABLES
    lCall,          \* the Manager method that is called: "Start" or "Stop"
    lServices,      \* Manager.services: per service, what its Start and Stop do
    mPc,            \* the Manager call: "idle", "wait" (in the range loop) or "returned"
    mRet,           \* the error the Manager call returned
    svcPc,          \* per service: "registered", "spawned", "running" or "done"
    svcRet,         \* per service: the error its Start or Stop returned
    errChan,        \* the buffered channel errChan
    chanClosed,     \* close(errChan) has run
    stopErrors,     \* Stop's local slice errors
    lNow            \* the clock; the Manager call is made at time 0

lifeVars ==
    <<lCall, lServices, mPc, mRet, svcPc, svcRet, errChan, chanClosed, stopErrors, lNow>>

VARIABLES
    mainPc,         \* main: "running", "cancel", "wait", "close" or "exited"
    closed          \* the resources App.Close has closed, in the order of closing

shutVars == <<mainPc, closed>>

VARIABLES
    vPc,            \* OrderValidator.Validate: "idle", "called" or "returned"
    vOrder,         \* Validate's argument
    vRet            \* the error Validate returned

valVars == <<vPc, vOrder, vRet>>

VARIABLES
    dEnabled,       \* DLQConfig.Enabled
    dPc,            \* the goroutine of ProcessDLQ: "go", "read" or "returned"
    dOffset,        \* number of envelopes the DLQ reader has delivered
    dErrsClosed     \* history: read errors ProcessDLQ met on the closed reader

dlqVars == <<dEnabled, dPc, dOffset, dErrsClosed>>

VARIABLES
    lkPc,           \* per goroutine: position inside its cache call, lock by lock
    lkOrder,        \* per goroutine: the argument of its Set
    lkTodo,         \* per goroutine: cleanup's expiredKeys still to delete
    cmuWriter,      \* the goroutine that holds c.mu.Lock, 0: none
    statsReaders,   \* the goroutines that hold c.stats.mu.RLock
    lkOps           \* number of cache calls started

lockVars == <<lkPc, lkOrder, lkTodo, cmuWriter, statsReaders, lkOps>>

\* the state of the parts that are looked at on their own
auxVars == <<valVars, dlqVars, lockVars>>

\* the state of the HTTP server, of the lifecycle manager and of main
appVars == <<apiVars, lifeVars, shutVars, auxVars>>

\* the state of the components that run outside the cache and the ingest pipeline
compVars == <<retryVars, breakerVars, limiterVars, appVars>>
\* everything but the cache
nonCacheVars == <<ingestVars, compVars>>

vars == <<cacheVars, ingestVars, compVars>>

(***************************************************************************)
(* cacheEntry values.  id stands for the pointer identity of the entry.    *)
(***************************************************************************)
NoEntry == [order |-> NilOrder, createdAt |-> -1, lastAccess |-> -1, id |-> -1]
NoKey == "<none>"
NoPending == [order |-> NilOrder, at |-> -1, thread |-> 0, full |-> FALSE]
NoGet ==
    [thread |-> 0, uid |-> "", hit |-> FALSE, order |-> NilOrder, evalAt |-> -1,
     createdAt |-> -1, follows |-> NoPending]
NoOp == [kind |-> "none", uid |-> "", full |-> FALSE, fresh |-> FALSE,
         evicted |-> {}, oldest |-> {}, first |-> NoKey]

Size(m) == Cardinality(DOMAIN m)
Remove(m, k) == [j \in DOMAIN m \ {k} |-> m[j]]
Put(m, k, e) == [j \in DOMAIN m \cup {k} |-> IF j = k THEN e ELSE m[j]]
SeqWithout(s, k) == SelectSeq(s, LAMBDA x : x # k)

\* the entry ids in use: in the map, or still referenced by a running Get
UsedIds ==
    {orders[k].id : k \in DOMAIN orders} \cup {getEntry[t].id : t \in Threads}
\* allocation of a new entry: the least id no live entry has
FreshIdOver(used) == CHOOSE i \in 0..Cardinality(used) : i \notin used

\* a TTL test that lets an entry live one tick too long
ExpiredLate(createdAt, at) == at - createdAt > Ttl + 1

\* time.Since(entry.createdAt) > c.ttl
Expired(createdAt, at) == at - createdAt > Ttl

(***************************************************************************)
(* OrderCache.evictOldest.  The loop ranges over the Go map in an          *)
(* unspecified order and keeps the first key it meets unless a later one   *)
(* is strictly older (createdAt.Before), so it ends on some key of minimal *)
(* createdAt: any of them, depending on the iteration order.               *)
(***************************************************************************)
OldestKeys(m) ==
    {k \in DOMAIN m : \A j \in DOMAIN m : ~(m[j].createdAt < m[k].createdAt)}

\* Set's test `len(c.orders) >= c.maxSize`
IsFull(m) == Size(m) >= MaxSize

\* the keys evictOldest may delete when Set runs on map m; NoKey: no eviction
EvictChoices(m) ==
    IF IsFull(m) /\ DOMAIN m # {} THEN OldestKeys(m) ELSE {NoKey}

\* Set's early return
SetSkips(order) == order.nil \/ order.uid = ""

\* an entry whose createdAt is left at the zero time
NewEntryZeroTime(order, id) ==
    [order |-> order, createdAt |-> now - Ttl - 1, lastAccess |-> now, id |-> id]

NewEntry(order, id) ==
    [order |-> order, createdAt |-> now, lastAccess |-> now, id |-> id]

\* history: the first-inserted key among the keys of minimal createdAt
FirstInserted(m, ins) ==
    IF DOMAIN m = {} THEN NoKey
    ELSE LET i == CHOOSE i \in 1..Len(ins) :
                    /\ ins[i] \in OldestKeys(m)
                    /\ \A j \in 1..(i - 1) : ins[j] \notin OldestKeys(m)
         IN  ins[i]

(***************************************************************************)
(* OrderCache.Set: the whole call runs under c.mu.Lock.  SetBody is the     *)
(* call; Set counts it against the budget of client calls.                 *)
(***************************************************************************)
SetBody(order) ==
    /\ IF SetSkips(order)
       THEN /\ UNCHANGED <<orders, insOrder, evictions>>
            /\ lastOp' = [NoOp EXCEPT !.kind = "setSkipped"]
            /\ pending' = NoPending
       ELSE \E victim \in EvictChoices(orders) :
              LET m1 == IF victim = NoKey THEN orders ELSE Remove(orders, victim)
                  s1 == IF victim = NoKey THEN insOrder ELSE SeqWithout(insOrder, victim)
              IN  /\ orders' = Put(m1, order.uid, NewEntry(order, FreshIdOver(UsedIds)))
                  /\ insOrder' = Append(SeqWithout(s1, order.uid), order.uid)
                  /\ evictions' = evictions + (IF victim = NoKey THEN 0 ELSE 1)
                  /\ lastOp' = [kind |-> "set", uid |-> order.uid,
                                full |-> IsFull(orders),
                                fresh |-> order.uid \notin DOMAIN orders,
                                evicted |-> DOMAIN orders \ DOMAIN orders',
                                oldest |-> OldestKeys(orders),
                                first |-> FirstInserted(orders, insOrder)]
                  /\ pending' = [order |-> order, at |-> now, thread |-> 0,
                                  full |-> IsFull(orders)]
    /\ UNCHANGED <<now, hits, misses, expirations, getPc, getUid, getEntry,
                   expiredRemoved, lastGet>>

\* a Set call made by a client of the cache
Set(order) ==
    /\ ops < MaxOps
    /\ ops' = ops + 1
    /\ SetBody(order)
    /\ UNCHANGED nonCacheVars

(***************************************************************************)
(* OrderCache.LoadAll: replaces the map by the non-nil, non-empty-uid      *)
(* orders of the slice, all stamped with one time.Now().                   *)
(***************************************************************************)
RECURSIVE LoadMap(_, _, _)
LoadMap(list, m, used) ==
    IF list = <<>> THEN m
    ELSE LET o == Head(list)
         IN  IF ~o.nil /\ o.uid # ""
             THEN LET id == FreshIdOver(used)
                  IN  LoadMap(Tail(list), Put(m, o.uid, NewEntry(o, id)), used \cup {id})
             ELSE LoadMap(Tail(list), m, used)

RECURSIVE LoadOrder(_, _)
LoadOrder(list, s) ==
    IF list = <<>> THEN s
    ELSE LET o == Head(list)
         IN  IF ~o.nil /\ o.uid # ""
             THEN LoadOrder(Tail(list), Append(SeqWithout(s, o.uid), o.uid))
             ELSE LoadOrder(Tail(list), s)

LoadAll(list) ==
    /\ ops < MaxOps
    /\ ops' = ops + 1
    /\ orders' = LoadMap(list, <<>>, {getEntry[t].id : t \in Threads})
    /\ insOrder' = LoadOrder(list, <<>>)
    /\ lastOp' = [NoOp EXCEPT !.kind = "loadAll"]
    /\ pending' = NoPending
    /\ UNCHANGED <<now, hits, misses, evictions, expirations, getPc, getUid,
                   getEntry, expiredRemoved, lastGet>>
    /\ UNCHANGED nonCacheVars

\* OrderCache.Delete
Delete(uid) ==
    /\ ops < MaxOps
    /\ ops' = ops + 1
    /\ orders' = Remove(orders, uid)
    /\ insOrder' = SeqWithout(insOrder, uid)
    /\ lastOp' = [NoOp EXCEPT !.kind = "delete", !.uid = uid]
    /\ pending' = NoPending
    /\ UNCHANGED <<now, hits, misses, evictions, expirations, getPc, getUid,
                   getEntry, expiredRemoved, lastGet>>
    /\ UNCHANGED nonCacheVars

\* OrderCache.Clear
Clear ==
    /\ ops < MaxOps
    /\ ops' = ops + 1
    /\ orders' = <<>>
    /\ insOrder' = <<>>
    /\ lastOp' = [NoOp EXCEPT !.kind = "clear"]
    /\ pending' = NoPending
    /\ UNCHANGED <<now, hits, misses, evictions, expirations, getPc, getUid,
                   getEntry, expiredRemoved, lastGet>>
    /\ UNCHANGED nonCacheVars

(***************************************************************************)
(* OrderCache.cleanup, the body of the sweep started by startCleanup: one  *)
(* critical section under c.mu.Lock.                                       *)
(***************************************************************************)
ExpiredKeys(m, at) == {k \in DOMAIN m : Expired(m[k].createdAt, at)}

cleanup ==
    /\ ops < MaxOps
    /\ ops' = ops + 1
    /\ LET gone == ExpiredKeys(orders, now)
       IN  /\ orders' = [k \in DOMAIN orders \ gone |-> orders[k]]
           /\ insOrder' = SelectSeq(insOrder, LAMBDA k : k \notin gone)
           /\ expirations' = expirations + Cardinality(gone)
           /\ expiredRemoved' = expiredRemoved + Cardinality(gone)
    /\ lastOp' = [NoOp EXCEPT !.kind = "cleanup"]
    /\ pending' = NoPending
    /\ UNCHANGED <<now, hits, misses, evictions, getPc, getUid, getEntry, lastGet>>
    /\ UNCHANGED nonCacheVars

(***************************************************************************)
(* OrderCache.Get, in the three critical sections of the code:             *)
(*   GetLookup  c.mu.RLock: read the entry pointer from the map;           *)
(*   GetCheck   entry.mu.RLock: the TTL test, and on a live entry the      *)
(*              lastAccess write and the hit;                              *)
(*   GetExpire  c.Delete(uid) under c.mu.Lock, incExpirations, incMisses.  *)
(***************************************************************************)
\* history: does the Get of thread t directly follow the pending Set of uid?
Follows(t, uid) ==
    IF pending.thread = 0 /\ ~pending.order.nil /\ pending.order.uid = uid
    THEN [pending EXCEPT !.thread = t]
    ELSE NoPending

GetLookupBody(t, uid) ==
    /\ getPc[t] = "idle"
    /\ IF uid \notin DOMAIN orders
       THEN /\ misses' = misses + 1
            /\ lastGet' = [NoGet EXCEPT !.thread = t, !.uid = uid, !.evalAt = now,
                                        !.follows = Follows(t, uid)]
            /\ lastOp' = [NoOp EXCEPT !.kind = "get", !.uid = uid]
            /\ pending' = NoPending
            /\ UNCHANGED <<getPc, getUid, getEntry>>
       ELSE /\ getPc' = [getPc EXCEPT ![t] = "check"]
            /\ getUid' = [getUid EXCEPT ![t] = uid]
            /\ getEntry' = [getEntry EXCEPT ![t] = orders[uid]]
            /\ pending' = Follows(t, uid)
            /\ UNCHANGED <<misses, lastGet, lastOp>>
    /\ UNCHANGED <<orders, insOrder, now, hits, evictions, expirations, expiredRemoved>>

\* a Get call made by a client of the cache
GetLookup(t, uid) ==
    /\ ops < MaxOps
    /\ ops' = ops + 1
    /\ GetLookupBody(t, uid)
    /\ UNCHANGED nonCacheVars

\* the test at line 61 on the entry Get holds
GetSeesExpired(t) == Expired(getEntry[t].createdAt, now)

\* entry.lastAccess = time.Now(), a write to the entry object Get holds
Touch(m, e) ==
    [k \in DOMAIN m |-> IF m[k].id = e.id THEN [m[k] EXCEPT !.lastAccess = now] ELSE m[k]]

GetCheckBody(t) ==
    /\ getPc[t] = "check"
    /\ IF GetSeesExpired(t)
       THEN /\ getPc' = [getPc EXCEPT ![t] = "expire"]
            /\ pending' = IF pending.thread = t THEN pending ELSE NoPending
            /\ UNCHANGED <<orders, hits, getUid, getEntry, lastGet, lastOp>>
       ELSE /\ orders' = Touch(orders, getEntry[t])
            /\ hits' = hits + 1
            /\ lastGet' = [thread |-> t, uid |-> getUid[t], hit |-> TRUE,
                           order |-> getEntry[t].order, evalAt |-> now,
                           createdAt |-> getEntry[t].createdAt,
                           follows |-> IF pending.thread = t THEN pending ELSE NoPending]
            /\ lastOp' = [NoOp EXCEPT !.kind = "get", !.uid = getUid[t]]
            /\ getPc' = [getPc EXCEPT ![t] = "idle"]
            /\ getUid' = [getUid EXCEPT ![t] = ""]
            /\ getEntry' = [getEntry EXCEPT ![t] = NoEntry]
            /\ pending' = NoPending
    /\ UNCHANGED <<insOrder, now, misses, evictions, expirations, expiredRemoved>>

GetCheck(t) ==
    /\ GetCheckBody(t)
    /\ UNCHANGED ops
    /\ UNCHANGED nonCacheVars

GetExpireBody(t) ==
    /\ getPc[t] = "expire"
    /\ orders' = Remove(orders, getUid[t])
    /\ insOrder' = SeqWithout(insOrder, getUid[t])
    /\ expirations' = expirations + 1
    /\ misses' = misses + 1
    /\ expiredRemoved' =
          expiredRemoved +
             (IF getUid[t] \in DOMAIN orders /\ Expired(orders[getUid[t]].createdAt, now)
              THEN 1 ELSE 0)
    /\ lastGet' = [NoGet EXCEPT !.thread = t, !.uid = getUid[t], !.evalAt = now,
                                !.createdAt = getEntry[t].createdAt,
                                !.follows = IF pending.thread = t THEN pending ELSE NoPending]
    /\ lastOp' = [NoOp EXCEPT !.kind = "get", !.uid = getUid[t]]
    /\ getPc' = [getPc EXCEPT ![t] = "idle"]
    /\ getUid' = [getUid EXCEPT ![t] = ""]
    /\ getEntry' = [getEntry EXCEPT ![t] = NoEntry]
    /\ pending' = NoPending
    /\ UNCHANGED <<now, hits, evictions>>

GetExpire(t) ==
    /\ GetExpireBody(t)
    /\ UNCHANGED ops
    /\ UNCHANGED nonCacheVars

\* the clock advances
Tick ==
    /\ now < MaxTime
    /\ now' = now + 1
    /\ UNCHANGED <<orders, insOrder, hits, misses, evictions, expirations, getPc,
                   getUid, getEntry, ops, expiredRemoved, lastOp, lastGet, pending>>
    /\ UNCHANGED nonCacheVars

\* NewOrderCache's counters and the goroutines at rest
CacheFresh ==
    /\ now = 0
    /\ hits = 0 /\ misses = 0 /\ evictions = 0 /\ expirations = 0
    /\ getPc = [t \in Threads |-> "idle"]
    /\ getUid = [t \in Threads |-> ""]
    /\ getEntry = [t \in Threads |-> NoEntry]
    /\ ops = 0
    /\ expiredRemoved = 0
    /\ lastOp = NoOp
    /\ lastGet = NoGet
    /\ pending = NoPending

\* NewOrderCache: an empty map, zero counters
CacheInit ==
    /\ CacheFresh
    /\ orders = <<>>
    /\ insOrder = <<>>

CacheNext ==
    \/ \E o \in Orders : Set(o)
    \/ \E l \in LoadInputs : LoadAll(l)
    \/ \E u \in UIDs : Delete(u)
    \/ Clear
    \/ cleanup
    \/ \E t \in Threads, u \in UIDs : GetLookup(t, u)
    \/ \E t \in Threads : GetCheck(t)
    \/ \E t \in Threads : GetExpire(t)
    \/ Tick

(***************************************************************************)
(* The ingest pipeline.                                                    *)
(*                                                                         *)
(* Broker messages.  A message is named by its bytes; Decode gives what    *)
(* json.Unmarshal makes of them.                                           *)
(***************************************************************************)
\* RetryConfig.MaxAttempts (RETRY_MAX_ATTEMPTS, default 3)
MaxAttempts == 3
\* number of messages the broker delivers in one behaviour
MaxMsgs == 2

Messages == {"bad", "inv", "a1", "b1"}

\* json.Unmarshal(msg, &order) succeeds
JsonOk(msg) == msg # "bad"

\* the order json.Unmarshal leaves in `order`
Decode(msg) ==
    CASE msg = "a1" -> MkOrder("a", 1)
      [] msg = "b1" -> MkOrder("b", 1)
      [] msg = "inv" -> [MkOrder("c", 1) EXCEPT !.amount = 7]
      [] OTHER -> [NilOrder EXCEPT !.nil = FALSE]

(***************************************************************************)
(* Errors are modelled by their message, the string Error() returns, as a  *)
(* sequence of parts; fmt.Errorf("...: %w", err) prepends to the cause's   *)
(* message.  The nil error is the empty sequence.                          *)
(***************************************************************************)
NilErr == <<>>
Errorf(prefix, cause) == <<prefix>> \o cause
CtxCanceled == "context canceled"

(***************************************************************************)
(* Go's int, cut to IntBits bits: sums wrap around.  The limits of           *)
(* config.Validation are scaled down with it and stay, as in the program,  *)
(* far below the largest int.                                              *)
(***************************************************************************)
IntBits == 5
IntMin == -(2 ^ (IntBits - 1))
IntMax == 2 ^ (IntBits - 1) - 1
WrapInt(n) == ((n - IntMin) % (2 ^ IntBits)) + IntMin

\* Validation.MaxPaymentAmount, MaxItemPrice and MaxItemsPerOrder
MaxPaymentAmount == 8
MaxItemPrice == 3
MaxItemsPerOrder == 3

\* totalItemsPrice += item.TotalPrice over the items
RECURSIVE SumTotalPrice(_)
SumTotalPrice(items) ==
    IF items = <<>> THEN 0
    ELSE WrapInt(SumTotalPrice(SubSeq(items, 1, Len(items) - 1))
                 + items[Len(items)].total_price)

\* fmt.Sprintf("<section>: %s", err.Error()) for a section that failed
Section(name, err) == IF err = NilErr THEN <<>> ELSE <<name \o ": " \o err[1]>>

(***************************************************************************)
(* OrderValidator.validatePayment, from the amount on: the first failing   *)
(* check is returned.  The checks of transaction, currency, provider,      *)
(* payment_dt and bank before and between them are part of fmtOk.          *)
(***************************************************************************)
validatePayment(o) ==
    IF o.amount <= 0 THEN <<"payment amount must be positive">>
    ELSE IF o.amount > MaxPaymentAmount THEN <<"payment amount cannot exceed the limit">>
    ELSE IF o.delivery_cost < 0 THEN <<"delivery_cost cannot be negative">>
    ELSE IF o.delivery_cost > o.amount THEN <<"delivery_cost cannot exceed total amount">>
    ELSE IF o.goods_total < 0 THEN <<"goods_total cannot be negative">>
    ELSE IF WrapInt(o.goods_total + o.delivery_cost) # o.amount
         THEN <<"goods_total + delivery_cost must equal total amount">>
    ELSE NilErr

\* OrderValidator.validateItem, the checks of total_price: it is not negative
\* and not above price, which is not above Validation.MaxItemPrice
ItemPriceOk(item) == item.total_price >= 0 /\ item.total_price <= MaxItemPrice

\* OrderValidator.validateItems
validateItems(items) ==
    IF Len(items) = 0 THEN <<"at least one item is required">>
    ELSE IF Len(items) > MaxItemsPerOrder THEN <<"cannot have more items in order">>
    ELSE IF \E i \in 1..Len(items) : ~ItemPriceOk(items[i])
         THEN <<"item total_price out of range">>
    ELSE NilErr

\* a cross-check that leaves out the sum of the items
validateBusinessLogicNoSum(o) ==
    IF o.transaction # o.uid THEN <<"payment transaction must match order_uid">>
    ELSE NilErr

\* OrderValidator.validateBusinessLogic
validateBusinessLogic(o) ==
    IF SumTotalPrice(o.items) # o.goods_total
    THEN <<"sum of items total_price does not match payment goods_total">>
    ELSE IF o.transaction # o.uid THEN <<"payment transaction must match order_uid">>
    ELSE NilErr

(***************************************************************************)
(* OrderValidator.Validate: every section is checked and the failures are  *)
(* collected.  fmtOk stands for the per-field format and enumeration       *)
(* checks of the order, its delivery, payment and items.                   *)
(***************************************************************************)
ValidationErrors(o) ==
    (IF o.uid = "" THEN <<"order_uid is required">> ELSE <<>>)
    \o (IF ~o.fmtOk THEN <<"format">> ELSE <<>>)
    \o Section("payment", validatePayment(o))
    \o Section("items", validateItems(o.items))
    \o Section("business logic", validateBusinessLogic(o))

Validate(o) ==
    IF o.nil THEN <<"order is nil">>
    ELSE IF ValidationErrors(o) # <<>>
         THEN Errorf("validation failed", ValidationErrors(o))
         ELSE NilErr

(***************************************************************************)
(* A call of Validate on its own.                                          *)
(***************************************************************************)
\* the values given to amount, goods_total and delivery_cost
PayValues == {IntMin, -1, 0, 1, 2, 3, MaxPaymentAmount + 1, IntMax}

ItemsOfPrices(prices) == [i \in 1..Len(prices) |-> Item(i, prices[i])]

\* the item lists: none, sums 1, 2 and 3, a negative price, a price above the
\* limit, more items than allowed, and prices whose sum wraps around to 2
ItemLists ==
    {ItemsOfPrices(prices) :
        prices \in {<<>>, <<1>>, <<1, 1>>, <<2, 1>>, <<-1, 3>>, <<MaxItemPrice + 1>>,
                    [i \in 1..(MaxItemsPerOrder + 1) |-> 0],
                    <<IntMax, IntMax, 4>>}}

ValidatorInputs ==
    {NilOrder} \cup
    {[MkOrder(uid, 1) EXCEPT !.amount = a, !.goods_total = g, !.delivery_cost = d,
                             !.items = items, !.fmtOk = f, !.transaction = "a"] :
        uid \in {"a", "b"}, a \in PayValues, g \in PayValues, d \in PayValues,
        items \in ItemLists, f \in BOOLEAN}

ValidateCalled(order) ==
    /\ vPc = "called"
    /\ vOrder = order
    /\ vRet = NilErr

\* Validate runs and returns
ValidateReturns ==
    /\ vPc = "called"
    /\ vPc' = "returned"
    /\ vRet' = Validate(vOrder)
    /\ UNCHANGED vOrder
    /\ UNCHANGED <<cacheVars, ingestVars, retryVars, breakerVars, limiterVars, apiVars,
                   lifeVars, shutVars, dlqVars, lockVars>>

ValIdle ==
    /\ vPc = "idle"
    /\ vOrder = NilOrder
    /\ vRet = NilErr

ValidateNext == ValidateReturns

(***************************************************************************)
(* DB.SaveOrder.  One transaction: INSERT ... ON CONFLICT DO NOTHING into  *)
(* orders, delivery and payment, a plain INSERT per item, then the         *)
(* deferred Commit (or Rollback when an Exec failed).  The outcome names   *)
(* the call that fails, or "ok".  The result of Commit is discarded by the *)
(* deferred function, so a failed commit still returns nil.                *)
(***************************************************************************)
SaveOutcomes == {"begin", "orders", "delivery", "payment", "items", "commit", "ok"}

SaveOrderErr(o, outcome) ==
    IF o.nil THEN <<"order is nil">>
    ELSE IF o.uid = "" THEN <<"order uid is empty">>
    ELSE IF outcome \in {"begin", "orders", "delivery", "payment", "items"}
         THEN <<"db: " \o outcome>>
         ELSE NilErr

\* the transaction's writes become visible
SaveCommits(o, outcome) == ~o.nil /\ o.uid # "" /\ outcome = "ok"

InsertOrder(tbl, o) ==
    IF o.uid \in DOMAIN tbl THEN tbl
    ELSE Put(tbl, o.uid, [ver |-> o.ver, items |-> o.items, fmtOk |-> o.fmtOk])
InsertDelivery(tbl, o) ==
    IF o.uid \in DOMAIN tbl THEN tbl ELSE Put(tbl, o.uid, [ver |-> o.ver])
InsertPayment(tbl, o) ==
    IF o.transaction \in DOMAIN tbl THEN tbl
    ELSE Put(tbl, o.transaction,
             [order_uid |-> o.uid, amount |-> o.amount, goods_total |-> o.goods_total,
              delivery_cost |-> o.delivery_cost])
InsertItems(rows, o) ==
    rows \o [i \in 1..Len(o.items) |->
                [order_uid |-> o.uid, chrt_id |-> o.items[i].chrt_id,
                 total_price |-> o.items[i].total_price]]

SaveOrder(o, outcome) ==
    IF SaveCommits(o, outcome)
    THEN /\ dbOrders' = InsertOrder(dbOrders, o)
         /\ dbDelivery' = InsertDelivery(dbDelivery, o)
         /\ dbPayment' = InsertPayment(dbPayment, o)
         /\ dbItems' = InsertItems(dbItems, o)
    ELSE UNCHANGED dbVars

(***************************************************************************)
(* RetryService.ExecuteWithRetry around processMessage.                    *)
(***************************************************************************)
\* `attempt == r.config.MaxAttempts`
IsLastAttempt(n) == n = MaxAttempts

\* fmt.Errorf("operation failed after %d attempts, last error: %w", ...)
RetryError(err) ==
    Errorf("operation failed after " \o ToString(MaxAttempts) \o " attempts, last error", err)

Step(name, ok, committed) ==
    [attempt |-> attempt, step |-> name, ok |-> ok, committed |-> committed]

\* processMessage returned err on this attempt: the loop's bookkeeping
AttemptFailed(err) ==
    /\ lastErr' = err
    /\ IF IsLastAttempt(attempt)
       THEN /\ retryErr' = RetryError(err)
            /\ hPc' = "dlq"
       ELSE /\ retryErr' = retryErr
            /\ hPc' = "sleep"

\* json.Unmarshal
HDecode ==
    /\ hPc = "decode"
    /\ trace' = Append(trace, Step("decode", JsonOk(hMsg), FALSE))
    /\ IF JsonOk(hMsg)
       THEN /\ hOrder' = Decode(hMsg)
            /\ hPc' = "validate"
            /\ UNCHANGED <<lastErr, retryErr>>
       ELSE /\ AttemptFailed(Errorf("failed to parse JSON", <<"invalid character">>))
            /\ UNCHANGED hOrder
    /\ UNCHANGED <<hMsg, attempt, dlqSubmitted, dlqTopic, handled>>
    /\ UNCHANGED <<compVars, cacheVars, dbVars, consumerVars>>

\* h.app.Validator.Validate(&order)
HValidate ==
    /\ hPc = "validate"
    /\ trace' = Append(trace, Step("validate", Validate(hOrder) = NilErr, FALSE))
    /\ IF Validate(hOrder) = NilErr
       THEN /\ hPc' = "save"
            /\ UNCHANGED <<lastErr, retryErr>>
       ELSE AttemptFailed(Errorf("order validation failed", Validate(hOrder)))
    /\ UNCHANGED <<hMsg, hOrder, attempt, dlqSubmitted, dlqTopic, handled>>
    /\ UNCHANGED <<compVars, cacheVars, dbVars, consumerVars>>

\* h.app.DB.SaveOrder(ctx, &order)
HSave ==
    /\ hPc = "save"
    /\ \E outcome \in SaveOutcomes :
         /\ SaveOrder(hOrder, outcome)
         /\ trace' = Append(trace, Step("save", SaveOrderErr(hOrder, outcome) = NilErr,
                                        SaveCommits(hOrder, outcome)))
         /\ IF SaveOrderErr(hOrder, outcome) = NilErr
            THEN /\ hPc' = "cache"
                 /\ UNCHANGED <<lastErr, retryErr>>
            ELSE AttemptFailed(Errorf("failed to save order " \o hOrder.uid,
                                      SaveOrderErr(hOrder, outcome)))
    /\ UNCHANGED <<hMsg, hOrder, attempt, dlqSubmitted, dlqTopic, handled>>
    /\ UNCHANGED <<compVars, cacheVars, consumerVars>>

\* what HandleMessage leaves behind when it returns ret
Handled(ret, tr, subs, dlqOk) ==
    [msg |-> hMsg, ret |-> ret, lastErr |-> lastErr, trace |-> tr, subs |-> subs,
     dlqOk |-> dlqOk]

\* h.app.Cache.Set(&order); processMessage, ExecuteWithRetry and
\* HandleMessage return nil
HCache ==
    /\ hPc = "cache"
    /\ SetBody(hOrder)
    /\ trace' = Append(trace, Step("cache", TRUE, FALSE))
    /\ handled' = Handled(NilErr, trace', <<>>, TRUE)
    /\ hPc' = "idle"
    /\ cPc' = "read"
    /\ UNCHANGED <<hMsg, hOrder, attempt, lastErr, retryErr, dlqSubmitted, dlqTopic>>
    /\ UNCHANGED <<compVars, ops, dbVars, ctxDone, cRet, msgsRead, sawReadErr>>

\* time.Sleep(delay); continue
HSleep ==
    /\ hPc = "sleep"
    /\ attempt' = attempt + 1
    /\ hPc' = "decode"
    /\ UNCHANGED <<hMsg, hOrder, lastErr, retryErr, trace, dlqSubmitted, dlqTopic, handled>>
    /\ UNCHANGED <<compVars, cacheVars, dbVars, consumerVars>>

(***************************************************************************)
(* The failure branch of HandleMessage: SendToDLQ(msg, err.Error()), whose *)
(* own error is logged, then `return err`.  DLQService.SendToDLQ publishes *)
(* the envelope unless the write fails.                                    *)
(***************************************************************************)
\* an error return that lets a failed DLQ publish replace the processing error
HandleReturnsDlqErr(err, dlqErr) == IF dlqErr # NilErr THEN dlqErr ELSE err

\* the error HandleMessage returns after the DLQ submit
HandleReturns(err, dlqErr) == err

DLQMessage(message, reason) ==
    [original_message |-> message, reason |-> reason, retry_count |-> 0]

HDlq ==
    /\ hPc = "dlq"
    /\ \E writeOk \in BOOLEAN :
         LET sub == [message |-> hMsg, reason |-> retryErr]
             dlqErr == IF writeOk THEN NilErr
                       ELSE Errorf("failed to send message to DLQ", <<"write">>)
         IN  /\ dlqSubmitted' = Append(dlqSubmitted, sub)
             /\ dlqTopic' = IF writeOk
                            THEN Append(dlqTopic, DLQMessage(sub.message, sub.reason))
                            ELSE dlqTopic
             /\ handled' = Handled(HandleReturns(retryErr, dlqErr), trace, <<sub>>, writeOk)
    /\ hPc' = "idle"
    /\ cPc' = "read"
    /\ UNCHANGED <<hMsg, hOrder, attempt, lastErr, retryErr, trace>>
    /\ UNCHANGED <<compVars, cacheVars, dbVars, ctxDone, cRet, msgsRead, sawReadErr>>

(***************************************************************************)
(* Consumer.ReadMessages as StartKafkaConsumer calls it (with a handle     *)
(* that is not nil): the loop around Reader.ReadMessage(ctx).              *)
(***************************************************************************)
\* a loop that gives up on any failed read
ReadErrAlwaysExits == TRUE

\* the test that ends the loop after a failed read: `ctx.Err() != nil`
ReadErrExits == ctxDone

\* ReadMessage returned m; handle(m.Value) starts HandleMessage
ReadOk(m) ==
    /\ cPc = "read"
    /\ msgsRead < MaxMsgs
    /\ msgsRead' = msgsRead + 1
    /\ cPc' = "handle"
    /\ hMsg' = m
    /\ hOrder' = NilOrder
    /\ attempt' = 1
    /\ lastErr' = NilErr
    /\ retryErr' = NilErr
    /\ trace' = <<>>
    /\ hPc' = "decode"
    /\ UNCHANGED <<dlqSubmitted, dlqTopic, handled, ctxDone, cRet, sawReadErr>>
    /\ UNCHANGED <<compVars, cacheVars, dbVars>>

\* ReadMessage returned an error
ReadErr ==
    /\ cPc = "read"
    /\ IF ReadErrExits
       THEN /\ cPc' = "returned"
            /\ cRet' = IF ctxDone THEN CtxCanceled ELSE "nil"
            /\ UNCHANGED sawReadErr
       ELSE /\ sawReadErr' = TRUE
            /\ UNCHANGED <<cPc, cRet>>
    /\ UNCHANGED <<ctxDone, msgsRead>>
    /\ UNCHANGED <<compVars, cacheVars, dbVars, handlerVars>>

\* main cancels the consumer context
Cancel ==
    /\ ~ctxDone
    /\ ctxDone' = TRUE
    /\ UNCHANGED <<cPc, cRet, msgsRead, sawReadErr>>
    /\ UNCHANGED <<compVars, cacheVars, dbVars, handlerVars>>

(***************************************************************************)
(* RetryService on its own: ExecuteWithRetry and ExecuteWithRetryContext   *)
(* around an arbitrary operation, under a range of configurations.         *)
(* Durations are whole clock units; the multiplier is a fraction num/den.  *)
(***************************************************************************)
Fraction(n, d) == [num |-> n, den |-> d]

RetryConfigs ==
    [maxAttempts : 0..4, initialDelay : {1, 2},
     multiplier : {Fraction(1, 1), Fraction(2, 1), Fraction(3, 2)}, maxDelay : {3, 5}]

\* the configuration config.Load builds when the environment sets nothing
DefaultRetryConfig ==
    [maxAttempts |-> MaxAttempts, initialDelay |-> 1, multiplier |-> Fraction(2, 1),
     maxDelay |-> 30]

\* the errors operation may return
OpErrors == {<<"e1">>, <<"e2">>}

RECURSIVE Pow(_, _)
Pow(b, e) == IF e <= 0 THEN 1 ELSE b * Pow(b, e - 1)

\* a backoff without the cap
calculateDelayUncapped(cfg, n) ==
    (cfg.initialDelay * Pow(cfg.multiplier.num, n - 1)) \div Pow(cfg.multiplier.den, n - 1)

\* RetryService.calculateDelay(attempt): the product and the comparison are
\* made in float64, and time.Duration(delay) drops the fraction
calculateDelay(cfg, n) ==
    LET p == cfg.initialDelay * Pow(cfg.multiplier.num, n - 1)
        q == Pow(cfg.multiplier.den, n - 1)
    IN  IF p > cfg.maxDelay * q THEN cfg.maxDelay ELSE p \div q

\* a last-attempt test that is one attempt late
LastAttemptLate(cfg, n) == n = cfg.maxAttempts + 1

\* `attempt == r.config.MaxAttempts`
LastAttempt(cfg, n) == n = cfg.maxAttempts

\* fmt.Errorf("operation failed after %d attempts, last error: %w", ...)
RetryFailed(cfg, err) ==
    Errorf("operation failed after " \o ToString(cfg.maxAttempts)
           \o " attempts, last error", err)

\* ctx.Err() of a cancelled context
CtxErr == <<CtxCanceled>>

\* a context whose cancellation is never seen
CtxNeverDone == FALSE

\* `case <-ctx.Done()` of ExecuteWithRetryContext is ready
CtxIsDone == rCtxAware /\ rCtxDone

LogEntry(kind, n, err, delay) ==
    [kind |-> kind, attempt |-> n, err |-> err, delay |-> delay, pc |-> rPc]

RetryReturn(err) ==
    /\ rPc' = "done"
    /\ rRet' = err

\* the head of the loop: the loop condition, the ctx check of the
\* context-aware executor, and the call of operation
RetryAttempt ==
    /\ rPc = "attempt"
    /\ IF ~(rAttempt <= rCfg.maxAttempts)
       THEN /\ RetryReturn(rLastErr)
            /\ UNCHANGED rLog
       ELSE IF CtxIsDone
       THEN /\ RetryReturn(CtxErr)
            /\ UNCHANGED rLog
       ELSE /\ rPc' = "op"
            /\ rLog' = Append(rLog, LogEntry("call", rAttempt, NilErr, 0))
            /\ UNCHANGED rRet
    /\ UNCHANGED <<rCfg, rCtxAware, rAttempt, rLastErr, rCtxDone>>
    /\ UNCHANGED <<cacheVars, ingestVars, breakerVars, limiterVars, appVars>>

\* operation returns err: success, the last attempt, or the start of the sleep
OperationReturns(err) ==
    /\ rPc = "op"
    /\ IF err = NilErr
       THEN /\ RetryReturn(NilErr)
            /\ rLog' = Append(rLog, LogEntry("ret", rAttempt, err, 0))
            /\ UNCHANGED rLastErr
       ELSE /\ rLastErr' = err
            /\ IF LastAttempt(rCfg, rAttempt)
               THEN /\ RetryReturn(RetryFailed(rCfg, err))
                    /\ rLog' = Append(rLog, LogEntry("ret", rAttempt, err, 0))
               ELSE /\ rPc' = "sleep"
                    /\ rLog' = rLog \o
                         << LogEntry("ret", rAttempt, err, 0),
                            LogEntry("sleep", rAttempt + 1, NilErr,
                                     calculateDelay(rCfg, rAttempt)) >>
                    /\ UNCHANGED rRet
    /\ UNCHANGED <<rCfg, rCtxAware, rAttempt, rCtxDone>>
    /\ UNCHANGED <<cacheVars, ingestVars, breakerVars, limiterVars, appVars>>

\* time.Sleep returns, or the time.After case of the select is taken
SleepElapsed ==
    /\ rPc = "sleep"
    /\ rPc' = "attempt"
    /\ rAttempt' = rAttempt + 1
    /\ UNCHANGED <<rCfg, rCtxAware, rLastErr, rRet, rCtxDone, rLog>>
    /\ UNCHANGED <<cacheVars, ingestVars, breakerVars, limiterVars, appVars>>

\* the ctx.Done() case of the select in ExecuteWithRetryContext
SleepCancelled ==
    /\ rPc = "sleep"
    /\ CtxIsDone
    /\ RetryReturn(CtxErr)
    /\ UNCHANGED <<rCfg, rCtxAware, rAttempt, rLastErr, rCtxDone, rLog>>
    /\ UNCHANGED <<cacheVars, ingestVars, breakerVars, limiterVars, appVars>>

\* the caller cancels ctx while the executor runs
CancelCtx ==
    /\ rCtxAware
    /\ ~rCtxDone
    /\ rPc \in {"attempt", "op", "sleep"}
    /\ rCtxDone' = TRUE
    /\ rLog' = Append(rLog, LogEntry("cancel", rAttempt, NilErr, 0))
    /\ UNCHANGED <<rCfg, rCtxAware, rPc, rAttempt, rLastErr, rRet>>
    /\ UNCHANGED <<cacheVars, ingestVars, breakerVars, limiterVars, appVars>>

\* the executor has just been called with configuration cfg
RetryCalled(cfg, ctxAware) ==
    /\ rCfg = cfg
    /\ rCtxAware = ctxAware
    /\ rPc = "attempt"
    /\ rAttempt = 1
    /\ rLastErr = NilErr
    /\ rRet = NilErr
    /\ rCtxDone = FALSE
    /\ rLog = <<>>

\* no executor is running
RetryIdle ==
    /\ rCfg = DefaultRetryConfig
    /\ rCtxAware = FALSE
    /\ rPc = "idle"
    /\ rAttempt = 0
    /\ rLastErr = NilErr
    /\ rRet = NilErr
    /\ rCtxDone = FALSE
    /\ rLog = <<>>

RetryNext ==
    \/ RetryAttempt
    \/ \E err \in OpErrors \cup {NilErr} : OperationReturns(err)
    \/ SleepElapsed
    \/ SleepCancelled
    \/ CancelCtx

(***************************************************************************)
(* CircuitBreaker behind HTTPMiddleware.Handler.  Each caller serves one   *)
(* request at a time: checkAndUpdateState under the mutex, then either the  *)
(* downstream handler followed by recordResult under the mutex, or the     *)
(* construction of the CircuitBreakerError, which reads cb.state without   *)
(* the mutex.  lastFailTime is written and never read, and is left out.    *)
(***************************************************************************)
StateClosed == "CLOSED"
StateOpen == "OPEN"
StateHalfOpen == "HALF_OPEN"

\* goroutines serving requests through the middleware
Callers == {1, 2}

BreakerConfigs ==
    [failureThreshold : {1, 2}, successThreshold : {1, 2}, timeout : {1},
     maxRequests : {1, 2}]

\* circuitbreaker.DefaultConfig(), with the timeout in clock ticks
DefaultBreakerConfig ==
    [failureThreshold |-> 5, successThreshold |-> 3, timeout |-> 60, maxRequests |-> 3]

\* the statuses the downstream handler answers with
Statuses == {200, 404, 500}

\* number of downstream failures in one behaviour
MaxFailures == 3
\* the breaker's clock runs over 1..MaxClock, and beyond only while a timeout is pending
MaxClock == 3

\* time.Time{}
ZeroTime == 0

\* the fields of the breaker that the mutex protects
Breaker ==
    [state |-> cbState, failures |-> failureCount, successes |-> successCount,
     requests |-> requestCount, next |-> nextAttempt]

\* `now.After(cb.nextAttempt)`
TimeoutElapsed(at, next) == at > next

\* an opening test that needs one failure more
ShouldOpenLate(cfg, failures) == failures > cfg.failureThreshold

\* `cb.failureCount >= cb.config.FailureThreshold`
ShouldOpen(cfg, failures) == failures >= cfg.failureThreshold

\* a closing test that needs one success more
ShouldCloseLate(cfg, successes) == successes > cfg.successThreshold

\* `cb.successCount >= cb.config.SuccessThreshold`
ShouldClose(cfg, successes) == successes >= cfg.successThreshold

\* checkAndUpdateState's first result
Allowed(cfg, cb, at) ==
    CASE cb.state = StateClosed -> TRUE
      [] cb.state = StateOpen -> TimeoutElapsed(at, cb.next)
      [] cb.state = StateHalfOpen -> cb.requests < cfg.maxRequests

\* the breaker after checkAndUpdateState
Checked(cfg, cb, at) ==
    IF cb.state = StateOpen /\ TimeoutElapsed(at, cb.next)
    THEN [cb EXCEPT !.state = StateHalfOpen, !.requests = 0, !.successes = 0]
    ELSE cb

\* the breaker after recordResult(success, _)
Recorded(cfg, cb, success, at) ==
    CASE cb.state = StateClosed ->
           IF success THEN [cb EXCEPT !.failures = 0]
           ELSE IF ShouldOpen(cfg, cb.failures + 1)
                THEN [cb EXCEPT !.failures = @ + 1, !.state = StateOpen,
                                !.next = at + cfg.timeout]
                ELSE [cb EXCEPT !.failures = @ + 1]
      [] cb.state = StateHalfOpen ->
           IF success
           THEN IF ShouldClose(cfg, cb.successes + 1)
                THEN [cb EXCEPT !.state = StateClosed, !.failures = 0,
                                !.successes = 0, !.requests = 0]
                ELSE [cb EXCEPT !.requests = @ + 1, !.successes = @ + 1]
           ELSE [cb EXCEPT !.requests = @ + 1, !.state = StateOpen,
                           !.next = at + cfg.timeout, !.failures = @ + 1]
      [] OTHER -> cb

\* the breaker fields take the values of record cb
BreakerBecomes(cb) ==
    /\ cbState' = cb.state
    /\ failureCount' = cb.failures
    /\ successCount' = cb.successes
    /\ requestCount' = cb.requests
    /\ nextAttempt' = cb.next

\* what a caller keeps of its checkAndUpdateState call: the state the call
\* found, and whether it ran strictly before nextAttempt
NoCheck == [before |-> "none", early |-> FALSE]
NoCall == [kind |-> "none"]

\* CircuitBreaker.checkAndUpdateState, called by Execute for caller t
checkAndUpdateState(t) ==
    /\ ePc[t] = "idle"
    /\ LET cb == Breaker
           ok == Allowed(cbConfig, cb, cbNow)
           nb == Checked(cbConfig, cb, cbNow)
       IN  /\ BreakerBecomes(nb)
           /\ ePc' = [ePc EXCEPT ![t] = IF ok THEN "fn" ELSE "rejected"]
           /\ eCheck' = [eCheck EXCEPT ![t] =
                            [before |-> cb.state, early |-> cbNow < cb.next]]
           /\ lastCall' = [kind |-> "check", caller |-> t, at |-> cbNow,
                           allowed |-> ok, old |-> cb, new |-> nb]
           /\ hoStarted' =
                IF cb.state = StateOpen /\ nb.state = StateHalfOpen THEN 1
                ELSE IF cb.state = StateHalfOpen /\ ok THEN hoStarted + 1
                ELSE hoStarted
    /\ UNCHANGED <<cbConfig, cbNow, failBudget, closedRun>>
    /\ UNCHANGED <<cacheVars, ingestVars, retryVars, limiterVars, appVars>>

\* Execute's `!allowed` branch, which reads cb.state through getState()
\* without the mutex, and the answer Handler gives to the error: onOpen for a
\* CircuitBreakerError whose State is StateOpen, http.Error with 500 otherwise
RejectError(t) ==
    /\ ePc[t] = "rejected"
    /\ lastCall' =
         [kind |-> "reject", caller |-> t, check |-> eCheck[t], errState |-> cbState,
          downstream |-> FALSE,
          status |-> IF cbState = StateOpen THEN 503 ELSE 500,
          via |-> IF cbState = StateOpen THEN "onOpen" ELSE "http.Error",
          writes |-> IF cbState = StateOpen THEN <<"onOpen">> ELSE <<"http.Error">>]
    /\ ePc' = [ePc EXCEPT ![t] = "idle"]
    /\ eCheck' = [eCheck EXCEPT ![t] = NoCheck]
    /\ UNCHANGED <<cbConfig, cbState, failureCount, successCount, requestCount,
                   nextAttempt, cbNow, failBudget, closedRun, hoStarted>>
    /\ UNCHANGED <<cacheVars, ingestVars, retryVars, limiterVars, appVars>>

\* who writes to the ResponseWriter of an admitted request: the downstream
\* handler through the responseRecorder and, when Execute returned the
\* HTTPError made of a status >= 500, Handler's http.Error after it
ResponseWrites(success) ==
    IF success THEN <<"downstream">> ELSE <<"downstream", "http.Error">>

\* the downstream handler answers with status, then CircuitBreaker.recordResult
\* runs with success = (status < 500), and Handler finishes the response
recordResult(t, status) ==
    /\ ePc[t] = "fn"
    /\ status >= 500 => failBudget > 0
    /\ LET success == ~(status >= 500)
           cb == Breaker
           nb == Recorded(cbConfig, cb, success, cbNow)
           run == IF cb.state = StateClosed
                  THEN IF success THEN 0 ELSE closedRun + 1
                  ELSE IF nb.state = StateClosed THEN 0 ELSE closedRun
       IN  /\ BreakerBecomes(nb)
           /\ closedRun' = run
           /\ failBudget' = IF success THEN failBudget ELSE failBudget - 1
           /\ lastCall' =
                [kind |-> "record", caller |-> t, check |-> eCheck[t],
                 success |-> success, at |-> cbNow, run |-> run, old |-> cb,
                 new |-> nb, downstream |-> TRUE, status |-> status,
                 via |-> IF success THEN "downstream" ELSE "downstream+http.Error",
                 writes |-> ResponseWrites(success)]
    /\ ePc' = [ePc EXCEPT ![t] = "idle"]
    /\ eCheck' = [eCheck EXCEPT ![t] = NoCheck]
    /\ UNCHANGED <<cbConfig, cbNow, hoStarted>>
    /\ UNCHANGED <<cacheVars, ingestVars, retryVars, limiterVars, appVars>>

\* CircuitBreaker.Reset
Reset ==
    /\ BreakerBecomes([state |-> StateClosed, failures |-> 0, successes |-> 0,
                       requests |-> 0, next |-> ZeroTime])
    /\ closedRun' = 0
    /\ lastCall' = [kind |-> "reset", old |-> Breaker]
    /\ UNCHANGED <<cbConfig, cbNow, ePc, eCheck, failBudget, hoStarted>>
    /\ UNCHANGED <<cacheVars, ingestVars, retryVars, limiterVars, appVars>>

\* the breaker's clock advances
BreakerTick ==
    /\ \/ cbNow < MaxClock
       \/ cbState = StateOpen /\ ~TimeoutElapsed(cbNow, nextAttempt)
    /\ cbNow' = cbNow + 1
    /\ UNCHANGED <<cbConfig, cbState, failureCount, successCount, requestCount,
                   nextAttempt, ePc, eCheck, failBudget, closedRun, hoStarted,
                   lastCall>>
    /\ UNCHANGED <<cacheVars, ingestVars, retryVars, limiterVars, appVars>>

\* circuitbreaker.New(cfg) behind NewHTTPMiddleware
BreakerInit(cfg) ==
    /\ cbConfig = cfg
    /\ cbState = StateClosed
    /\ failureCount = 0
    /\ successCount = 0
    /\ requestCount = 0
    /\ nextAttempt = ZeroTime
    /\ cbNow = 1
    /\ ePc = [t \in Callers |-> "idle"]
    /\ eCheck = [t \in Callers |-> NoCheck]
    /\ failBudget = MaxFailures
    /\ closedRun = 0
    /\ hoStarted = 0
    /\ lastCall = NoCall

BreakerIdle == BreakerInit(DefaultBreakerConfig)

BreakerNext ==
    \/ \E t \in Callers : checkAndUpdateState(t)
    \/ \E t \in Callers : RejectError(t)
    \/ \E t \in Callers, status \in Statuses : recordResult(t, status)
    \/ Reset
    \/ BreakerTick

(***************************************************************************)
(* ratelimit.TokenBucket.  Time is in clock ticks.  A bucket's tokens are a *)
(* float64 in the source; here they are kept as the integer tokens*window, *)
(* so that a refill of elapsed/window*requests tokens is elapsed*requests. *)
(***************************************************************************)
Keys == {"k1", "k2"}

\* the Config values handed to NewRateLimiter
LimiterConfigs == [requests : {1, 2}, window : {1, 2}, burst : {0, 1, 3}]

\* NewRateLimiter's algorithm argument
Algorithms == {"token-bucket", "fixed-window"}

\* the limiter's clock runs over 0..MaxLimiterTime
MaxLimiterTime == 3
\* number of limiter API calls in one behaviour
MaxLimiterOps == 5

\* NewTokenBucket: a burst that is not positive becomes requests
NewTokenBucket(config) ==
    IF config.burst <= 0 THEN [config EXCEPT !.burst = config.requests] ELSE config

\* float64(n) tokens in the scaled unit
Tokens(n) == n * tbConfig.window

\* getOrCreateBucket's new bucket
NewBucket ==
    [tokens |-> Tokens(tbConfig.requests), lastRefill |-> tbNow, allowed |-> 0,
     denied |-> 0, burst |-> Tokens(tbConfig.burst)]

\* TokenBucket.getOrCreateBucket
getOrCreateBucket(key) == IF key \in DOMAIN buckets THEN buckets[key] ELSE NewBucket

\* TokenBucket.refill
refill(b, at) ==
    LET elapsed == at - b.lastRefill
        sum == b.tokens + elapsed * tbConfig.requests
    IN  IF elapsed <= 0 THEN b
        ELSE [b EXCEPT !.tokens = IF sum > b.burst THEN b.burst ELSE sum,
                       !.lastRefill = at]

\* `b.tokens >= 1.0`
HasToken(b) == b.tokens >= Tokens(1)

\* history: the limiter call that completed last
LimiterCall(kind, key, ok, before, after) ==
    [kind |-> kind, key |-> key, ok |-> ok, at |-> tbNow, before |-> before,
     after |-> after]

\* TokenBucket.Allow
TokenBucketAllow(key) ==
    /\ algorithm = "token-bucket"
    /\ tbOps < MaxLimiterOps
    /\ tbOps' = tbOps + 1
    /\ LET b == refill(getOrCreateBucket(key), tbNow)
       IN  IF HasToken(b)
           THEN /\ buckets' = Put(buckets, key,
                                  [b EXCEPT !.tokens = @ - Tokens(1), !.allowed = @ + 1])
                /\ admitted' = [admitted EXCEPT ![key] = Append(@, tbNow)]
                /\ lastLim' = LimiterCall("allow", key, TRUE, b.tokens,
                                          b.tokens - Tokens(1))
           ELSE /\ buckets' = Put(buckets, key, [b EXCEPT !.denied = @ + 1])
                /\ lastLim' = LimiterCall("allow", key, FALSE, b.tokens, b.tokens)
                /\ UNCHANGED admitted
    /\ lastSeen' = [lastSeen EXCEPT ![key] = tbNow]
    /\ UNCHANGED <<tbConfig, tbNow, algorithm, windows>>
    /\ UNCHANGED <<cacheVars, ingestVars, retryVars, breakerVars, appVars>>

\* TokenBucket.Reset
TokenBucketReset(key) ==
    /\ algorithm = "token-bucket"
    /\ tbOps < MaxLimiterOps
    /\ tbOps' = tbOps + 1
    /\ buckets' =
         IF key \in DOMAIN buckets
         THEN Put(buckets, key,
                  [buckets[key] EXCEPT !.tokens = Tokens(tbConfig.requests),
                                       !.lastRefill = tbNow, !.allowed = 0,
                                       !.denied = 0])
         ELSE buckets
    /\ lastLim' = LimiterCall("reset", key, FALSE, 0, 0)
    /\ UNCHANGED <<tbConfig, tbNow, admitted, algorithm, windows, lastSeen>>
    /\ UNCHANGED <<cacheVars, ingestVars, retryVars, breakerVars, appVars>>

\* the keys TokenBucket.cleanup deletes
StaleKeys ==
    {k \in DOMAIN buckets :
        /\ buckets[k].lastRefill < tbNow - 2 * tbConfig.window
        /\ buckets[k].allowed = 0
        /\ buckets[k].denied = 0}

\* TokenBucket.cleanup, run by StartCleanup on every tick of its ticker
TokenBucketCleanup ==
    /\ algorithm = "token-bucket"
    /\ buckets' = [k \in DOMAIN buckets \ StaleKeys |-> buckets[k]]
    /\ lastLim' = LimiterCall("cleanup", "", FALSE, 0, 0)
    /\ UNCHANGED <<tbConfig, tbNow, tbOps, admitted, algorithm, windows, lastSeen>>
    /\ UNCHANGED <<cacheVars, ingestVars, retryVars, breakerVars, appVars>>

(***************************************************************************)
(* ratelimit.FixedWindow, the limiter NewRateLimiter builds for the        *)
(* algorithm "fixed-window".                                               *)
(***************************************************************************)
\* now.Truncate(fw.config.Window)
Truncate(at, d) == at - (at % d)

\* history: the entry a FixedWindow.Reset leaves among a key's admission times
ResetMark == -1

\* FixedWindow.getOrCreateWindow
getOrCreateWindow(key) ==
    IF key \in DOMAIN windows THEN windows[key]
    ELSE [count |-> 0, startTime |-> Truncate(tbNow, tbConfig.window), allowed |-> 0,
          denied |-> 0]

\* a window that is never started anew
KeepWindow(w, at) == w

\* FixedWindow.Allow: the window is started anew once it is over
RollWindow(w, at) ==
    IF at - w.startTime >= tbConfig.window
    THEN [w EXCEPT !.count = 0, !.startTime = Truncate(at, tbConfig.window)]
    ELSE w

\* `w.count < int64(fw.config.Requests)`
UnderLimit(w) == w.count < tbConfig.requests

\* FixedWindow.Allow
FixedWindowAllow(key) ==
    /\ algorithm = "fixed-window"
    /\ tbOps < MaxLimiterOps
    /\ tbOps' = tbOps + 1
    /\ LET old == getOrCreateWindow(key)
           w == RollWindow(old, tbNow)
       IN  IF UnderLimit(w)
           THEN /\ windows' = Put(windows, key,
                                  [w EXCEPT !.count = @ + 1, !.allowed = @ + 1])
                /\ admitted' = [admitted EXCEPT ![key] = Append(@, tbNow)]
                /\ lastLim' = LimiterCall("allow", key, TRUE, old, w)
           ELSE /\ windows' = Put(windows, key, [w EXCEPT !.denied = @ + 1])
                /\ lastLim' = LimiterCall("allow", key, FALSE, old, w)
                /\ UNCHANGED admitted
    /\ lastSeen' = [lastSeen EXCEPT ![key] = tbNow]
    /\ UNCHANGED <<tbConfig, tbNow, algorithm, buckets>>
    /\ UNCHANGED <<cacheVars, ingestVars, retryVars, breakerVars, appVars>>

\* FixedWindow.Reset
FixedWindowReset(key) ==
    /\ algorithm = "fixed-window"
    /\ tbOps < MaxLimiterOps
    /\ tbOps' = tbOps + 1
    /\ windows' =
         IF key \in DOMAIN windows
         THEN Put(windows, key,
                  [count |-> 0, startTime |-> Truncate(tbNow, tbConfig.window),
                   allowed |-> 0, denied |-> 0])
         ELSE windows
    /\ admitted' = [admitted EXCEPT ![key] = Append(@, ResetMark)]
    /\ lastLim' = LimiterCall("reset", key, FALSE, 0, 0)
    /\ UNCHANGED <<tbConfig, tbNow, algorithm, buckets, lastSeen>>
    /\ UNCHANGED <<cacheVars, ingestVars, retryVars, breakerVars, appVars>>

\* the limiter's clock advances
LimiterTick ==
    /\ tbNow < MaxLimiterTime
    /\ tbNow' = tbNow + 1
    /\ UNCHANGED <<tbConfig, buckets, tbOps, admitted, algorithm, windows, lastSeen,
                   lastLim>>
    /\ UNCHANGED <<cacheVars, ingestVars, retryVars, breakerVars, appVars>>

\* NewRateLimiter(config, alg)
LimiterInit(config, alg) ==
    /\ algorithm = alg
    /\ tbConfig = IF alg = "fixed-window" THEN config ELSE NewTokenBucket(config)
    /\ buckets = <<>>
    /\ windows = <<>>
    /\ tbNow = 0
    /\ tbOps = 0
    /\ admitted = [k \in Keys |-> <<>>]
    /\ lastSeen = [k \in Keys |-> -1]
    /\ lastLim = [kind |-> "none"]

\* the configuration of a limiter that is constructed and never called
DefaultLimiterConfig == [requests |-> 2, window |-> 2, burst |-> 0]

LimiterIdle == LimiterInit(DefaultLimiterConfig, "token-bucket")

LimiterNext ==
    \/ \E key \in Keys : TokenBucketAllow(key)
    \/ \E key \in Keys : TokenBucketReset(key)
    \/ TokenBucketCleanup
    \/ \E key \in Keys : FixedWindowAllow(key)
    \/ \E key \in Keys : FixedWindowReset(key)
    \/ LimiterTick

(***************************************************************************)
(* The HTTP server (internal/http): Server.ServeHTTP and its route         *)
(* handlers over the cache and the store.  A request runs on its own       *)
(* goroutine; the cache calls of a handler are the critical sections of    *)
(* OrderCache.Get and OrderCache.Set, and other requests run in between.   *)
(***************************************************************************)
\* number of HTTP requests in one behaviour
MaxApiOps == 3

\* the {uid} of GET /order/{uid}: "" is the path "/order/"
PathUIDs == {"", "a", "b"}

\* the bodies of POST /order, as json.Decode leaves them
PostedOrders == {MkOrder("a", 2), MkOrder("", 1)}

\* the orders saved in the store when the server starts
StoreInputs ==
    { <<>>,
      <<MkOrder("a", 1)>>,
      <<MkOrder("a", 1), MkOrder("b", 1)>> }

\* App.initHTTPServer: the handlers a request passes, outermost first
ServerHandler == <<"api">>

\* the tables after SaveOrder has committed each order of the list
RECURSIVE StoreAfter(_, _)
StoreAfter(list, st) ==
    IF list = <<>> THEN st
    ELSE StoreAfter(Tail(list),
                    [orders |-> InsertOrder(st.orders, Head(list)),
                     delivery |-> InsertDelivery(st.delivery, Head(list)),
                     payment |-> InsertPayment(st.payment, Head(list)),
                     items |-> InsertItems(st.items, Head(list))])

EmptyStore == [orders |-> <<>>, delivery |-> <<>>, payment |-> <<>>, items |-> <<>>]

\* the rows of GetOrderByUID's query: orders JOIN delivery JOIN payment
PaymentsOf(uid) == {tx \in DOMAIN dbPayment : dbPayment[tx].order_uid = uid}
HasRow(uid) ==
    uid \in DOMAIN dbOrders /\ uid \in DOMAIN dbDelivery /\ PaymentsOf(uid) # {}

\* json_agg(i.*): the items rows of the order, in the order of their id
ItemsOf(uid) ==
    LET rows == SelectSeq(dbItems, LAMBDA r : r.order_uid = uid)
    IN  [i \in 1..Len(rows) |-> Item(rows[i].chrt_id, rows[i].total_price)]

\* the order GetOrderByUID scans from the row of payment tx
StoredOrder(uid, tx) ==
    [nil |-> FALSE, uid |-> uid, ver |-> dbOrders[uid].ver,
     fmtOk |-> dbOrders[uid].fmtOk, transaction |-> tx,
     amount |-> dbPayment[tx].amount, goods_total |-> dbPayment[tx].goods_total,
     delivery_cost |-> dbPayment[tx].delivery_cost, items |-> ItemsOf(uid)]

\* DB.GetOrderByUID: what it may return, as [order, err]; dbOk = FALSE is a
\* query that fails (connection, context)
GetOrderByUID(uid, dbOk) ==
    IF ~dbOk THEN {[order |-> NilOrder, err |-> <<"db: query">>]}
    ELSE IF ~HasRow(uid) THEN {[order |-> NilOrder, err |-> <<"no rows in result set">>]}
    ELSE {[order |-> StoredOrder(uid, tx), err |-> NilErr] : tx \in PaymentsOf(uid)}

\* a store lookup that is taken to have found an order whatever it returned
StoreFoundAlways(res) == TRUE

\* `err == nil && dbOrder != nil`
StoreFound(res) == res.err = NilErr /\ ~res.order.nil

\* a read path that puts nothing into the cache
BackfillNothing(dbOrder) == NilOrder

\* the order handleGetOrder hands to Cache.Set
Backfill(dbOrder) == dbOrder

StatusOK == 200
StatusCreated == 201
StatusBadRequest == 400
StatusNotFound == 404

NoResp ==
    [thread |-> 0, route |-> "none", uid |-> "", status |-> 0, body |-> NilOrder,
     cacheLooked |-> FALSE, cacheHit |-> FALSE, storeLooked |-> FALSE,
     found |-> NilOrder, via |-> <<>>]
NoFill == [order |-> NilOrder, at |-> -1, getter |-> 0, followed |-> FALSE]

\* history: lastFill once goroutine t has started a Get of uid.  The fill
\* stays on record while no cache call has come after it but the Get that
\* follows it directly.
FillAfterLookup(t, uid) ==
    IF ~lastFill.order.nil /\ lastFill.getter = 0 /\ ~lastFill.followed
          /\ uid = lastFill.order.uid /\ uid \in DOMAIN orders
    THEN [lastFill EXCEPT !.getter = t]
    ELSE NoFill

\* history: the response of goroutine t
Resp(t, route, uid, status, body) ==
    [NoResp EXCEPT !.thread = t, !.route = route, !.uid = uid, !.status = status,
                   !.body = body, !.via = ServerHandler]

ApiFrame ==
    UNCHANGED <<dbVars, consumerVars, handlerVars, retryVars, breakerVars, limiterVars,
                lifeVars, shutVars, auxVars>>

\* GET /order/{uid}: the uid test, and Cache.Get's lookup in the map
ApiGetOrder(t, uid) ==
    /\ apiOps < MaxApiOps
    /\ aPc[t] = "idle"
    /\ apiOps' = apiOps + 1
    /\ IF uid = ""
       THEN /\ lastResp' = Resp(t, "getOrder", uid, StatusBadRequest, NilOrder)
            /\ UNCHANGED <<aPc, aUid, cacheVars, lastFill>>
       ELSE /\ GetLookupBody(t, uid)
            /\ aPc' = [aPc EXCEPT ![t] = IF uid \in DOMAIN orders THEN "cache" ELSE "store"]
            /\ aUid' = [aUid EXCEPT ![t] = uid]
            /\ lastFill' = FillAfterLookup(t, uid)
            /\ UNCHANGED <<ops, lastResp>>
    /\ UNCHANGED aOrder
    /\ ApiFrame

\* Cache.Get's TTL test on the entry found; a live entry is the response
ApiCacheCheck(t) ==
    /\ aPc[t] = "cache"
    /\ getPc[t] = "check"
    /\ GetCheckBody(t)
    /\ IF GetSeesExpired(t)
       THEN /\ lastFill' = IF lastFill.getter = t THEN lastFill ELSE NoFill
            /\ UNCHANGED <<aPc, aUid, lastResp>>
       ELSE /\ aPc' = [aPc EXCEPT ![t] = "idle"]
            /\ aUid' = [aUid EXCEPT ![t] = ""]
            /\ lastResp' = [Resp(t, "getOrder", aUid[t], StatusOK, getEntry[t].order)
                               EXCEPT !.cacheLooked = TRUE, !.cacheHit = TRUE]
            /\ lastFill' = IF lastFill.getter = t
                           THEN [lastFill EXCEPT !.getter = 0, !.followed = TRUE]
                           ELSE NoFill
    /\ UNCHANGED <<ops, aOrder, apiOps>>
    /\ ApiFrame

\* Cache.Get deletes the expired entry and returns a miss
ApiCacheExpire(t) ==
    /\ aPc[t] = "cache"
    /\ getPc[t] = "expire"
    /\ GetExpireBody(t)
    /\ aPc' = [aPc EXCEPT ![t] = "store"]
    /\ lastFill' = NoFill
    /\ UNCHANGED <<ops, aUid, aOrder, apiOps, lastResp>>
    /\ ApiFrame

\* s.DB.GetOrderByUID after a miss; 404 unless it returned an order
ApiStoreLookup(t, dbOk) ==
    /\ aPc[t] = "store"
    /\ \E res \in GetOrderByUID(aUid[t], dbOk) :
         IF StoreFound(res)
         THEN /\ aPc' = [aPc EXCEPT ![t] = "fill"]
              /\ aOrder' = [aOrder EXCEPT ![t] = res.order]
              /\ UNCHANGED <<aUid, lastResp>>
         ELSE /\ aPc' = [aPc EXCEPT ![t] = "idle"]
              /\ aUid' = [aUid EXCEPT ![t] = ""]
              /\ lastResp' = [Resp(t, "getOrder", aUid[t], StatusNotFound, NilOrder)
                                 EXCEPT !.cacheLooked = TRUE, !.storeLooked = TRUE,
                                        !.found = res.order]
              /\ UNCHANGED aOrder
    /\ UNCHANGED <<cacheVars, apiOps, lastFill>>
    /\ ApiFrame

\* s.Cache.Set(dbOrder) and the response that carries dbOrder
ApiFill(t) ==
    /\ aPc[t] = "fill"
    /\ SetBody(Backfill(aOrder[t]))
    /\ lastFill' = [order |-> aOrder[t], at |-> now, getter |-> 0, followed |-> FALSE]
    /\ lastResp' = [Resp(t, "getOrder", aUid[t], StatusOK, aOrder[t])
                       EXCEPT !.cacheLooked = TRUE, !.storeLooked = TRUE,
                              !.found = aOrder[t]]
    /\ aPc' = [aPc EXCEPT ![t] = "idle"]
    /\ aUid' = [aUid EXCEPT ![t] = ""]
    /\ aOrder' = [aOrder EXCEPT ![t] = NilOrder]
    /\ UNCHANGED <<ops, apiOps>>
    /\ ApiFrame

\* POST /order: Server.handleCreateOrder
ApiCreateOrder(t, order, jsonOk) ==
    /\ apiOps < MaxApiOps
    /\ aPc[t] = "idle"
    /\ apiOps' = apiOps + 1
    /\ IF ~jsonOk
       THEN /\ lastResp' = Resp(t, "createOrder", "", StatusBadRequest, NilOrder)
            /\ UNCHANGED <<cacheVars, lastFill>>
       ELSE /\ SetBody(order)
            /\ lastResp' = Resp(t, "createOrder", order.uid, StatusCreated, order)
            /\ lastFill' = NoFill
            /\ UNCHANGED ops
    /\ UNCHANGED <<aPc, aUid, aOrder>>
    /\ ApiFrame

\* GET /health: Server.handleHealth
ApiHealth(t) ==
    /\ apiOps < MaxApiOps
    /\ aPc[t] = "idle"
    /\ apiOps' = apiOps + 1
    /\ lastResp' = Resp(t, "health", "", StatusOK, NilOrder)
    /\ UNCHANGED <<cacheVars, aPc, aUid, aOrder, lastFill>>
    /\ ApiFrame

\* the clock advances while the server runs
ApiTick ==
    /\ now < MaxTime
    /\ now' = now + 1
    /\ UNCHANGED <<orders, insOrder, hits, misses, evictions, expirations, getPc,
                   getUid, getEntry, ops, expiredRemoved, lastOp, lastGet, pending>>
    /\ UNCHANGED apiVars
    /\ ApiFrame

\* httpapi.NewServer: no request is running
ApiIdle ==
    /\ aPc = [t \in Threads |-> "idle"]
    /\ aUid = [t \in Threads |-> ""]
    /\ aOrder = [t \in Threads |-> NilOrder]
    /\ apiOps = 0
    /\ lastResp = NoResp
    /\ lastFill = NoFill

ApiNext ==
    \/ \E t \in Threads, uid \in PathUIDs : ApiGetOrder(t, uid)
    \/ \E t \in Threads : ApiCacheCheck(t)
    \/ \E t \in Threads : ApiCacheExpire(t)
    \/ \E t \in Threads, dbOk \in BOOLEAN : ApiStoreLookup(t, dbOk)
    \/ \E t \in Threads : ApiFill(t)
    \/ \E t \in Threads, order \in PostedOrders, jsonOk \in BOOLEAN :
          ApiCreateOrder(t, order, jsonOk)
    \/ \E t \in Threads : ApiHealth(t)
    \/ ApiTick

(***************************************************************************)
(* lifecycle.Manager: Start and Stop fan out one goroutine per registered  *)
(* service, a further goroutine closes errChan once all of them are done,  *)
(* and the caller ranges over errChan.                                     *)
(***************************************************************************)
Services == {"s1", "s2"}

\* the timeout handed to Manager.Stop, in clock ticks
StopTimeout == 1
\* the time a slow Stop takes (mockService.stopDelay), longer than the timeout
StopDelay == 2
\* the lifecycle clock runs over 0..MaxLifeTime
MaxLifeTime == 3

\* how a service's Stop treats its context: it returns at once, it returns
\* when the context is done, it sleeps StopDelay whatever the context says,
\* or it never returns
StopModes == {"prompt", "ctx", "slow", "hang"}

\* what a service does: the errors its Start and Stop return, and its stop mode
ServiceKinds == [startErr : BOOLEAN, stopErr : BOOLEAN, stopMode : StopModes]

\* the error of service svc
SvcError(svc, call) == <<call \o " error: " \o svc>>
DeadlineExceeded == <<"context deadline exceeded">>

\* stopCtx is done
StopCtxDone == lNow >= StopTimeout

LifeFrame ==
    UNCHANGED <<cacheVars, ingestVars, retryVars, breakerVars, limiterVars, apiVars,
                shutVars, auxVars>>

\* Manager.Start / Manager.Stop up to the range loop: the services are copied
\* and one goroutine per service is started
ManagerCall ==
    /\ mPc = "idle"
    /\ mPc' = "wait"
    /\ svcPc' = [svc \in Services |-> "spawned"]
    /\ UNCHANGED <<lCall, lServices, mRet, svcRet, errChan, chanClosed, stopErrors, lNow>>
    /\ LifeFrame

\* a service goroutine calls svc.Start(ctx) or svc.Stop(stopCtx)
ServiceInvoked(svc) ==
    /\ svcPc[svc] = "spawned"
    /\ svcPc' = [svcPc EXCEPT ![svc] = "running"]
    /\ UNCHANGED <<lCall, lServices, mPc, mRet, svcRet, errChan, chanClosed, stopErrors,
                   lNow>>
    /\ LifeFrame

\* the call of the service can return now
CanReturn(svc) ==
    \/ lCall = "Start"
    \/ lServices[svc].stopMode = "prompt"
    \/ lServices[svc].stopMode = "ctx" /\ StopCtxDone
    \/ lServices[svc].stopMode = "slow" /\ lNow >= StopDelay

\* the error the call of the service returns
ServiceError(svc) ==
    IF lCall = "Start"
    THEN IF lServices[svc].startErr THEN SvcError(svc, "start") ELSE NilErr
    ELSE IF lServices[svc].stopMode = "ctx" THEN DeadlineExceeded
    ELSE IF lServices[svc].stopErr THEN SvcError(svc, "stop") ELSE NilErr

\* svc.Start / svc.Stop returns; a non-nil error is sent to errChan; wg.Done
ServiceReturns(svc) ==
    /\ svcPc[svc] = "running"
    /\ CanReturn(svc)
    /\ svcPc' = [svcPc EXCEPT ![svc] = "done"]
    /\ svcRet' = [svcRet EXCEPT ![svc] = ServiceError(svc)]
    /\ errChan' = IF ServiceError(svc) # NilErr THEN Append(errChan, ServiceError(svc))
                  ELSE errChan
    /\ UNCHANGED <<lCall, lServices, mPc, mRet, chanClosed, stopErrors, lNow>>
    /\ LifeFrame

\* wg.Wait(); close(errChan)
CloseErrChan ==
    /\ mPc # "idle"
    /\ ~chanClosed
    /\ \A svc \in Services : svcPc[svc] = "done"
    /\ chanClosed' = TRUE
    /\ UNCHANGED <<lCall, lServices, mPc, mRet, svcPc, svcRet, errChan, stopErrors, lNow>>
    /\ LifeFrame

\* a Start that reports no error
NoError(ch) == NilErr

\* Start: `return err` on the first error received
FirstError(ch) == Head(ch)

\* the range loop receives an error: Start returns it, Stop appends it
ManagerReceives ==
    /\ mPc = "wait"
    /\ errChan # <<>>
    /\ errChan' = Tail(errChan)
    /\ IF lCall = "Start"
       THEN /\ mPc' = "returned"
            /\ mRet' = FirstError(errChan)
            /\ UNCHANGED stopErrors
       ELSE /\ stopErrors' = Append(stopErrors, Head(errChan))
            /\ UNCHANGED <<mPc, mRet>>
    /\ UNCHANGED <<lCall, lServices, svcPc, svcRet, chanClosed, lNow>>
    /\ LifeFrame

\* the range loop ends on the closed, drained channel: Start returns nil,
\* Stop returns errors[0] if it collected any
ManagerReturns ==
    /\ mPc = "wait"
    /\ errChan = <<>>
    /\ chanClosed
    /\ mPc' = "returned"
    /\ mRet' = IF stopErrors # <<>> THEN stopErrors[1] ELSE NilErr
    /\ UNCHANGED <<lCall, lServices, svcPc, svcRet, errChan, chanClosed, stopErrors, lNow>>
    /\ LifeFrame

\* the clock advances
LifeTick ==
    /\ lNow < MaxLifeTime
    /\ lNow' = lNow + 1
    /\ UNCHANGED <<lCall, lServices, mPc, mRet, svcPc, svcRet, errChan, chanClosed,
                   stopErrors>>
    /\ LifeFrame

\* lifecycle.New and Register: the services registered, nothing called yet
LifeInit(call, services) ==
    /\ lCall = call
    /\ lServices = services
    /\ mPc = "idle"
    /\ mRet = NilErr
    /\ svcPc = [svc \in Services |-> "registered"]
    /\ svcRet = [svc \in Services |-> NilErr]
    /\ errChan = <<>>
    /\ chanClosed = FALSE
    /\ stopErrors = <<>>
    /\ lNow = 0

\* a manager whose services do nothing and fail nowhere
LifeIdle ==
    LifeInit("Start", [svc \in Services |->
                          [startErr |-> FALSE, stopErr |-> FALSE, stopMode |-> "prompt"]])

LifeNext ==
    \/ ManagerCall
    \/ \E svc \in Services : ServiceInvoked(svc)
    \/ \E svc \in Services : ServiceReturns(svc)
    \/ CloseErrChan
    \/ ManagerReceives
    \/ ManagerReturns
    \/ LifeTick

(***************************************************************************)
(* Shutdown: main after the signal, and the deferred App.Close, next to    *)
(* the consumer goroutine that main started and does not wait for.         *)
(***************************************************************************)
\* App.Close: the resources in the order it closes them
CloseOrder == <<"cache", "db", "reader", "dlq">>

ShutFrame ==
    UNCHANGED <<cacheVars, dbVars, handlerVars, retryVars, breakerVars, limiterVars,
                apiVars, lifeVars, valVars, lockVars>>

\* the signal arrives and app.HTTPServer.Shutdown(shutdownCtx) returns
MainShutdownHTTP ==
    /\ mainPc = "running"
    /\ mainPc' = "cancel"
    /\ UNCHANGED <<closed, consumerVars, dlqVars>>
    /\ ShutFrame

\* cancel(): the consumer context is cancelled
MainCancel ==
    /\ mainPc = "cancel"
    /\ mainPc' = "wait"
    /\ ctxDone' = TRUE
    /\ UNCHANGED <<closed, cPc, cRet, msgsRead, sawReadErr, dlqVars>>
    /\ ShutFrame

\* the select on shutdownCtx.Done() and time.After(ShutdownWaitTimeout)
\* returns: one of the two timers has fired
MainWaitOver ==
    /\ mainPc = "wait"
    /\ mainPc' = "close"
    /\ UNCHANGED <<closed, consumerVars, dlqVars>>
    /\ ShutFrame

\* the deferred app.Close() closes the next resource
AppClose ==
    /\ mainPc = "close"
    /\ Len(closed) < Len(CloseOrder)
    /\ closed' = Append(closed, CloseOrder[Len(closed) + 1])
    /\ UNCHANGED <<mainPc, consumerVars, dlqVars>>
    /\ ShutFrame

\* app.Close() returns, main returns and the process exits
MainReturns ==
    /\ mainPc = "close"
    /\ Len(closed) = Len(CloseOrder)
    /\ mainPc' = "exited"
    /\ UNCHANGED <<closed, consumerVars, dlqVars>>
    /\ ShutFrame

(***************************************************************************)
(* DLQService.ProcessDLQ in the goroutine main starts for it: an endless   *)
(* loop around reader.ReadMessage(context.Background()).  An envelope that *)
(* was read is logged (retryMessage does nothing else); after a read error *)
(* the loop goes on.  The reader of a closed DLQService fails every read.  *)
(* The goroutine runs as long as the process does.                         *)
(***************************************************************************)
\* number of read errors on the closed reader that are counted
MaxDlqErrs == 2

\* DLQService.Close has closed the reader
DlqReaderClosed == \E i \in 1..Len(closed) : closed[i] = "dlq"

DlqFrame ==
    UNCHANGED <<cacheVars, ingestVars, retryVars, breakerVars, limiterVars, apiVars,
                lifeVars, shutVars, valVars, lockVars>>

\* the goroutine starts ProcessDLQ: `if !d.config.Enabled { return nil }`
DlqStart ==
    /\ mainPc # "exited"
    /\ dPc = "go"
    /\ dPc' = IF dEnabled THEN "read" ELSE "returned"
    /\ UNCHANGED <<dEnabled, dOffset, dErrsClosed>>
    /\ DlqFrame

\* ReadMessage delivers the next envelope of the topic; it is unmarshalled,
\* its retry count is compared and retryMessage logs it
DlqReadOk ==
    /\ mainPc # "exited"
    /\ dPc = "read"
    /\ ~DlqReaderClosed
    /\ dOffset < Len(dlqTopic)
    /\ dOffset' = dOffset + 1
    /\ UNCHANGED <<dEnabled, dPc, dErrsClosed>>
    /\ DlqFrame

\* ReadMessage returns an error, always on a closed reader and now and then
\* on an open one; the error is logged and the loop goes on: `continue`
DlqReadErr ==
    /\ mainPc # "exited"
    /\ dPc = "read"
    /\ dErrsClosed < MaxDlqErrs
    /\ dErrsClosed' = dErrsClosed + (IF DlqReaderClosed THEN 1 ELSE 0)
    /\ UNCHANGED <<dEnabled, dPc, dOffset>>
    /\ DlqFrame

\* no DLQ processor has been started
DlqIdle ==
    /\ dEnabled = FALSE
    /\ dPc = "returned"
    /\ dOffset = 0
    /\ dErrsClosed = 0

\* main has started the goroutine of ProcessDLQ
DlqStarted(enabled) ==
    /\ dEnabled = enabled
    /\ dPc = "go"
    /\ dOffset = 0
    /\ dErrsClosed = 0

\* main is waiting for the signal, nothing is closed
ShutIdle ==
    /\ mainPc = "running"
    /\ closed = <<>>

\* the steps of the consumer goroutine
ConsumerNext ==
    \/ \E m \in Messages : ReadOk(m)
    \/ ReadErr
    \/ HDecode
    \/ HValidate
    \/ HSave
    \/ HCache
    \/ HSleep
    \/ HDlq

\* the goroutines run until the process exits
ShutdownNext ==
    \/ mainPc # "exited" /\ ConsumerNext
    \/ DlqStart
    \/ DlqReadOk
    \/ DlqReadErr
    \/ MainShutdownHTTP
    \/ MainCancel
    \/ MainWaitOver
    \/ AppClose
    \/ MainReturns

(***************************************************************************)
(* The cache lock by lock.  Three locks: c.mu over the map, c.stats.mu     *)
(* over the counters, and entry.mu, which is only ever read-locked and so  *)
(* never blocks.  A step is what a goroutine does between two lock         *)
(* acquisitions that may block.  c.mu is held in write mode across steps   *)
(* by Set and cleanup, c.stats.mu in read mode by GetStats; every other    *)
(* critical section is one step.  A read lock is granted when no writer    *)
(* holds the lock, a write lock when nobody holds it.                      *)
(***************************************************************************)
\* number of cache calls in one behaviour
MaxLockOps == 3

\* the orders handed to Set
LockOrders == {NilOrder, MkOrder("a", 2), MkOrder("c", 1)}
\* the uids handed to Get and Delete
LockUIDs == {"a", "c"}

\* c.mu.RLock() and c.mu.Lock() return
CmuFree == cmuWriter = 0
\* c.stats.mu.Lock() returns
StatsFree == statsReaders = {}

LkFrame ==
    /\ UNCHANGED <<getPc, ops, expiredRemoved, lastOp, lastGet, pending>>
    /\ UNCHANGED <<ingestVars, retryVars, breakerVars, limiterVars, apiVars, lifeVars,
                   shutVars, valVars, dlqVars>>

LkCalls(t) ==
    /\ lkPc[t] = "idle"
    /\ lkOps < MaxLockOps
    /\ lkOps' = lkOps + 1

LkGoto(t, pc) == lkPc' = [lkPc EXCEPT ![t] = pc]

\* Set up to incEvictions: the early return, c.mu.Lock, the size test and
\* evictOldest's delete
LkSet(t, order) ==
    /\ LkCalls(t)
    /\ IF SetSkips(order)
       THEN UNCHANGED <<lkPc, lkOrder, cmuWriter, orders, insOrder>>
       ELSE /\ CmuFree
            /\ cmuWriter' = t
            /\ lkOrder' = [lkOrder EXCEPT ![t] = order]
            /\ \E victim \in EvictChoices(orders) :
                  IF victim = NoKey
                  THEN /\ LkGoto(t, "set:insert")
                       /\ UNCHANGED <<orders, insOrder>>
                  ELSE /\ LkGoto(t, "set:incEvictions")
                       /\ orders' = Remove(orders, victim)
                       /\ insOrder' = SeqWithout(insOrder, victim)
    /\ UNCHANGED <<now, hits, misses, evictions, expirations, getUid, getEntry,
                   lkTodo, statsReaders>>
    /\ LkFrame

\* incEvictions under c.mu: c.stats.mu.Lock, evictions++, Unlock
LkIncEvictions(t) ==
    /\ lkPc[t] = "set:incEvictions"
    /\ StatsFree
    /\ evictions' = evictions + 1
    /\ LkGoto(t, "set:insert")
    /\ UNCHANGED <<orders, insOrder, now, hits, misses, expirations, getUid, getEntry,
                   lkOrder, lkTodo, cmuWriter, statsReaders, lkOps>>
    /\ LkFrame

\* c.orders[order.OrderUID] = newEntry and the deferred c.mu.Unlock
LkSetInsert(t) ==
    /\ lkPc[t] = "set:insert"
    /\ orders' = Put(orders, lkOrder[t].uid, NewEntry(lkOrder[t], FreshIdOver(UsedIds)))
    /\ insOrder' = Append(SeqWithout(insOrder, lkOrder[t].uid), lkOrder[t].uid)
    /\ cmuWriter' = 0
    /\ lkOrder' = [lkOrder EXCEPT ![t] = NilOrder]
    /\ LkGoto(t, "idle")
    /\ UNCHANGED <<now, hits, misses, evictions, expirations, getUid, getEntry,
                   lkTodo, statsReaders, lkOps>>
    /\ LkFrame

\* cleanup: c.mu.Lock and the loop that collects the expired keys
LkCleanup(t) ==
    /\ LkCalls(t)
    /\ CmuFree
    /\ cmuWriter' = t
    /\ lkTodo' = [lkTodo EXCEPT ![t] = ExpiredKeys(orders, now)]
    /\ LkGoto(t, "cleanup:loop")
    /\ UNCHANGED <<orders, insOrder, now, hits, misses, evictions, expirations,
                   getUid, getEntry, lkOrder, statsReaders>>
    /\ LkFrame

\* the second loop of cleanup: delete(c.orders, key)
LkCleanupDelete(t) ==
    /\ lkPc[t] = "cleanup:loop"
    /\ \E key \in lkTodo[t] :
          /\ orders' = Remove(orders, key)
          /\ insOrder' = SeqWithout(insOrder, key)
          /\ lkTodo' = [lkTodo EXCEPT ![t] = @ \ {key}]
    /\ LkGoto(t, "cleanup:incExpirations")
    /\ UNCHANGED <<now, hits, misses, evictions, expirations, getUid, getEntry,
                   lkOrder, cmuWriter, statsReaders, lkOps>>
    /\ LkFrame

\* incExpirations under c.mu
LkIncExpirations(t) ==
    /\ lkPc[t] = "cleanup:incExpirations"
    /\ StatsFree
    /\ expirations' = expirations + 1
    /\ LkGoto(t, "cleanup:loop")
    /\ UNCHANGED <<orders, insOrder, now, hits, misses, evictions, getUid, getEntry,
                   lkOrder, lkTodo, cmuWriter, statsReaders, lkOps>>
    /\ LkFrame

\* the end of the loop and the deferred c.mu.Unlock
LkCleanupUnlock(t) ==
    /\ lkPc[t] = "cleanup:loop"
    /\ lkTodo[t] = {}
    /\ cmuWriter' = 0
    /\ LkGoto(t, "idle")
    /\ UNCHANGED <<orders, insOrder, now, hits, misses, evictions, expirations,
                   getUid, getEntry, lkOrder, lkTodo, statsReaders, lkOps>>
    /\ LkFrame

\* GetStats: c.stats.mu.RLock, kept until the function returns
LkGetStats(t) ==
    /\ LkCalls(t)
    /\ statsReaders' = statsReaders \cup {t}
    /\ LkGoto(t, "stats:size")
    /\ UNCHANGED <<orders, insOrder, now, hits, misses, evictions, expirations,
                   getUid, getEntry, lkOrder, lkTodo, cmuWriter>>
    /\ LkFrame

\* c.Size() under c.stats.mu: c.mu.RLock, len, RUnlock; then GetStats
\* returns and the deferred c.stats.mu.RUnlock runs
LkStatsSize(t) ==
    /\ lkPc[t] = "stats:size"
    /\ CmuFree
    /\ statsReaders' = statsReaders \ {t}
    /\ LkGoto(t, "idle")
    /\ UNCHANGED <<orders, insOrder, now, hits, misses, evictions, expirations,
                   getUid, getEntry, lkOrder, lkTodo, cmuWriter, lkOps>>
    /\ LkFrame

\* Get: the lookup under c.mu.RLock
LkGet(t, uid) ==
    /\ LkCalls(t)
    /\ CmuFree
    /\ IF uid \notin DOMAIN orders
       THEN /\ LkGoto(t, "get:incMisses")
            /\ UNCHANGED <<getUid, getEntry>>
       ELSE /\ LkGoto(t, "get:check")
            /\ getUid' = [getUid EXCEPT ![t] = uid]
            /\ getEntry' = [getEntry EXCEPT ![t] = orders[uid]]
    /\ UNCHANGED <<orders, insOrder, now, hits, misses, evictions, expirations,
                   lkOrder, lkTodo, cmuWriter, statsReaders>>
    /\ LkFrame

\* Get: the TTL test and the lastAccess write under entry.mu.RLock
LkGetCheck(t) ==
    /\ lkPc[t] = "get:check"
    /\ IF GetSeesExpired(t)
       THEN /\ LkGoto(t, "get:delete")
            /\ UNCHANGED orders
       ELSE /\ LkGoto(t, "get:incHits")
            /\ orders' = Touch(orders, getEntry[t])
    /\ UNCHANGED <<insOrder, now, hits, misses, evictions, expirations, getUid,
                   getEntry, lkOrder, lkTodo, cmuWriter, statsReaders, lkOps>>
    /\ LkFrame

\* Get: c.Delete(orderUID), one critical section under c.mu.Lock
LkGetDelete(t) ==
    /\ lkPc[t] = "get:delete"
    /\ CmuFree
    /\ orders' = Remove(orders, getUid[t])
    /\ insOrder' = SeqWithout(insOrder, getUid[t])
    /\ LkGoto(t, "get:incExpirations")
    /\ UNCHANGED <<now, hits, misses, evictions, expirations, getUid, getEntry,
                   lkOrder, lkTodo, cmuWriter, statsReaders, lkOps>>
    /\ LkFrame

\* Get: incExpirations, incMisses or incHits, each under c.stats.mu.Lock;
\* after incMisses and after incHits Get returns
LkGetCount(t) ==
    /\ lkPc[t] \in {"get:incExpirations", "get:incMisses", "get:incHits"}
    /\ StatsFree
    /\ expirations' = expirations + (IF lkPc[t] = "get:incExpirations" THEN 1 ELSE 0)
    /\ misses' = misses + (IF lkPc[t] = "get:incMisses" THEN 1 ELSE 0)
    /\ hits' = hits + (IF lkPc[t] = "get:incHits" THEN 1 ELSE 0)
    /\ IF lkPc[t] = "get:incExpirations"
       THEN /\ LkGoto(t, "get:incMisses")
            /\ UNCHANGED <<getUid, getEntry>>
       ELSE /\ LkGoto(t, "idle")
            /\ getUid' = [getUid EXCEPT ![t] = ""]
            /\ getEntry' = [getEntry EXCEPT ![t] = NoEntry]
    /\ UNCHANGED <<orders, insOrder, now, evictions, lkOrder, lkTodo, cmuWriter,
                   statsReaders, lkOps>>
    /\ LkFrame

\* Delete: one critical section under c.mu.Lock
LkDelete(t, uid) ==
    /\ LkCalls(t)
    /\ CmuFree
    /\ orders' = Remove(orders, uid)
    /\ insOrder' = SeqWithout(insOrder, uid)
    /\ UNCHANGED <<now, hits, misses, evictions, expirations, getUid, getEntry,
                   lkPc, lkOrder, lkTodo, cmuWriter, statsReaders>>
    /\ LkFrame

\* the clock advances
LkTick ==
    /\ now < MaxTime
    /\ now' = now + 1
    /\ UNCHANGED <<orders, insOrder, hits, misses, evictions, expirations, getUid,
                   getEntry, lockVars>>
    /\ LkFrame

\* no goroutine is inside a cache call, no lock is held
LockIdle ==
    /\ lkPc = [t \in Threads |-> "idle"]
    /\ lkOrder = [t \in Threads |-> NilOrder]
    /\ lkTodo = [t \in Threads |-> {}]
    /\ cmuWriter = 0
    /\ statsReaders = {}
    /\ lkOps = 0

LockNext ==
    \/ \E t \in Threads, o \in LockOrders : LkSet(t, o)
    \/ \E t \in Threads : LkIncEvictions(t)
    \/ \E t \in Threads : LkSetInsert(t)
    \/ \E t \in Threads : LkCleanup(t)
    \/ \E t \in Threads : LkCleanupDelete(t)
    \/ \E t \in Threads : LkIncExpirations(t)
    \/ \E t \in Threads : LkCleanupUnlock(t)
    \/ \E t \in Threads : LkGetStats(t)
    \/ \E t \in Threads : LkStatsSize(t)
    \/ \E t \in Threads, u \in LockUIDs : LkGet(t, u)
    \/ \E t \in Threads : LkGetCheck(t)
    \/ \E t \in Threads : LkGetDelete(t)
    \/ \E t \in Threads : LkGetCount(t)
    \/ \E t \in Threads, u \in LockUIDs : LkDelete(t, u)
    \/ LkTick

(***************************************************************************)
(* Initial state: NewOrderCache's empty cache, an empty store and topic,   *)
(* the consumer about to read.                                             *)
(***************************************************************************)
\* the tables hold st
StoreIs(st) ==
    /\ dbOrders = st.orders /\ dbDelivery = st.delivery /\ dbPayment = st.payment
    /\ dbItems = st.items

\* the consumer about to read its first message
PipelineIdle ==
    /\ ctxDone = FALSE /\ cPc = "read" /\ cRet = "" /\ msgsRead = 0
    /\ sawReadErr = FALSE
    /\ hPc = "idle" /\ hMsg = "" /\ hOrder = NilOrder /\ attempt = 0
    /\ lastErr = NilErr /\ retryErr = NilErr /\ trace = <<>>
    /\ dlqSubmitted = <<>> /\ dlqTopic = <<>>
    /\ handled = [msg |-> "", ret |-> NilErr, lastErr |-> NilErr, trace |-> <<>>,
                  subs |-> <<>>, dlqOk |-> TRUE]

IngestIdle == StoreIs(EmptyStore) /\ PipelineIdle

\* no part that is looked at on its own is running
AuxIdle == ValIdle /\ DlqIdle /\ LockIdle

\* the HTTP server constructed, no request running; a lifecycle manager at
\* rest; main waiting for the signal
AppIdle == ApiIdle /\ LifeIdle /\ ShutIdle /\ AuxIdle

\* the retry executor, the breaker, the limiter and the server constructed and
\* at rest
CompIdle == RetryIdle /\ BreakerIdle /\ LimiterIdle /\ AppIdle

Init == CacheInit /\ IngestIdle /\ CompIdle

\* the cache on its own: clients call its API from several goroutines while
\* the sweep runs and the clock advances
Next == CacheNext
Spec == Init /\ [][Next]_vars

\* the ingest pipeline: the consumer loop, the message handler with its retry
\* loop, the store and the DLQ
IngestNext ==
    \/ \E m \in Messages : ReadOk(m)
    \/ ReadErr
    \/ Cancel
    \/ HDecode
    \/ HValidate
    \/ HSave
    \/ HCache
    \/ HSleep
    \/ HDlq

SpecIngest == Init /\ [][IngestNext]_vars

\* the retry executor on its own, called once with some configuration
InitRetry ==
    /\ CacheInit /\ IngestIdle /\ BreakerIdle /\ LimiterIdle /\ AppIdle
    /\ \E cfg \in RetryConfigs, ctxAware \in BOOLEAN : RetryCalled(cfg, ctxAware)
SpecRetry == InitRetry /\ [][RetryNext]_vars

\* the breaker behind its HTTP adapter, serving concurrent requests
InitBreaker ==
    /\ CacheInit /\ IngestIdle /\ RetryIdle /\ LimiterIdle /\ AppIdle
    /\ \E cfg \in BreakerConfigs : BreakerInit(cfg)
SpecBreaker == InitBreaker /\ [][BreakerNext]_vars

\* the same, where every caller keeps going and the clock keeps advancing
BreakerFairness ==
    /\ \A t \in Callers : WF_vars(checkAndUpdateState(t))
    /\ \A t \in Callers : WF_vars(RejectError(t))
    /\ \A t \in Callers : WF_vars(\E status \in Statuses : recordResult(t, status))
    /\ WF_vars(BreakerTick)
SpecBreakerLive == InitBreaker /\ [][BreakerNext]_vars /\ BreakerFairness

\* the rate limiter on its own
InitLimiter ==
    /\ CacheInit /\ IngestIdle /\ RetryIdle /\ BreakerIdle /\ AppIdle
    /\ \E config \in LimiterConfigs, alg \in Algorithms :
          \* FixedWindow never reads config.Burst: one value of it is enough
          /\ alg = "fixed-window" => config.burst = 0
          /\ LimiterInit(config, alg)
SpecLimiter == InitLimiter /\ [][LimiterNext]_vars

\* DB.LoadAllOrders: the orders of the store, in the order the query yields
\* them (it has no ORDER BY)
LoadAllOrders ==
    LET uids == {u \in DOMAIN dbOrders : HasRow(u)}
        perms == {q \in [1..Cardinality(uids) -> uids] :
                     \A i, j \in 1..Cardinality(uids) : q[i] = q[j] => i = j}
    IN  {[i \in 1..Cardinality(uids) |->
             StoredOrder(q[i], CHOOSE tx \in PaymentsOf(q[i]) : TRUE)] : q \in perms}

\* the HTTP server over a store that holds some orders and a cache that
\* App.initCache either warm-loaded from it or, the load having failed, left
\* empty
InitApi ==
    /\ RetryIdle /\ BreakerIdle /\ LimiterIdle /\ ApiIdle /\ LifeIdle /\ ShutIdle
    /\ AuxIdle
    /\ PipelineIdle
    /\ \E list \in StoreInputs : StoreIs(StoreAfter(list, EmptyStore))
    /\ CacheFresh
    /\ \E loaded \in LoadAllOrders \cup {<<>>} :
          /\ orders = LoadMap(loaded, <<>>, {})
          /\ insOrder = LoadOrder(loaded, <<>>)
SpecApi == InitApi /\ [][ApiNext]_vars

\* the lifecycle manager on its own: one Start or one Stop call over two
\* registered services
InitLife ==
    /\ CacheInit /\ IngestIdle /\ RetryIdle /\ BreakerIdle /\ LimiterIdle /\ ApiIdle
    /\ ShutIdle /\ AuxIdle
    /\ \E call \in {"Start", "Stop"}, services \in [Services -> ServiceKinds] :
          LifeInit(call, services)
SpecLife == InitLife /\ [][LifeNext]_vars

\* the same, where every goroutine that can take a step takes it and the
\* clock keeps advancing; a Stop that hangs stays hung
LifeFairness ==
    /\ WF_vars(ManagerCall)
    /\ \A svc \in Services : WF_vars(ServiceInvoked(svc))
    /\ \A svc \in Services : WF_vars(ServiceReturns(svc))
    /\ WF_vars(CloseErrChan)
    /\ WF_vars(ManagerReceives)
    /\ WF_vars(ManagerReturns)
    /\ WF_vars(LifeTick)
SpecLifeLive == InitLife /\ [][LifeNext]_vars /\ LifeFairness

\* one call of Validate with some order
InitValidate ==
    /\ CacheInit /\ IngestIdle /\ RetryIdle /\ BreakerIdle /\ LimiterIdle /\ ApiIdle
    /\ LifeIdle /\ ShutIdle /\ DlqIdle /\ LockIdle
    /\ \E order \in ValidatorInputs : ValidateCalled(order)
SpecValidate == InitValidate /\ [][ValidateNext]_vars

\* goroutines calling the cache that App.initCache has loaded
InitLocks ==
    /\ IngestIdle /\ RetryIdle /\ BreakerIdle /\ LimiterIdle /\ ApiIdle
    /\ LifeIdle /\ ShutIdle /\ ValIdle /\ DlqIdle /\ LockIdle
    /\ CacheFresh
    /\ \E list \in LoadInputs :
          /\ orders = LoadMap(list, <<>>, {})
          /\ insOrder = LoadOrder(list, <<>>)
SpecLocks == InitLocks /\ [][LockNext]_vars

\* the service from the start of the consumer and DLQ goroutines to the exit
\* of main
InitShutdown ==
    /\ CacheInit /\ IngestIdle /\ RetryIdle /\ BreakerIdle /\ LimiterIdle /\ ApiIdle
    /\ LifeIdle /\ ShutIdle /\ ValIdle /\ LockIdle
    /\ \E enabled \in BOOLEAN : DlqStarted(enabled)
SpecShutdown == InitShutdown /\ [][ShutdownNext]_vars

(***************************************************************************)
(* Properties of the cache, checked under Spec.                            *)
(***************************************************************************)

\* C1: right after a Set of a cache built with max_size >= 1 has returned,
\* the cache holds at most max_size entries.
C1_SizeAfterSet == lastOp.kind = "set" => Size(orders) <= MaxSize

C3_SetThenGet ==
    (lastGet.follows.thread # 0 /\ lastGet.evalAt - lastGet.follows.at < Ttl)
        => (lastGet.hit /\ lastGet.order = lastGet.follows.order)

C3_GetAfterSetOnFullCache ==
    /\ lastGet.follows.thread # 0
    /\ lastGet.follows.full
    /\ lastGet.evalAt - lastGet.follows.at < Ttl
    /\ lastGet.hit

\* C4: a Set that inserts a new key into a full cache removes exactly one entry,
\* the one with the oldest created_at and, among entries of equal created_at,
\* the one inserted first.
C4_EvictsOldestInsertedFirst ==
    (lastOp.kind = "set" /\ lastOp.full /\ lastOp.fresh)
        => lastOp.evicted = {lastOp.first}

\* C5: the expirations counter equals the number of entries removed from the
\* cache because their age exceeded ttl, also when several Gets or a sweep
\* observe the same expired entry.
C5_ExpirationsCountRemovals == expirations = expiredRemoved

\* the removal step of a Get that saw an expired entry leaves alone an entry
\* of that uid that is not expired
RemovesOnlyExpired ==
    \A t \in Threads :
       (/\ getPc[t] = "expire"
        /\ getPc'[t] = "idle"
        /\ getUid[t] \in DOMAIN orders
        /\ ~Expired(orders[getUid[t]].createdAt, now))
       => /\ getUid[t] \in DOMAIN orders'
          /\ orders'[getUid[t]] = orders[getUid[t]]

\* C34: a Get that has seen an expired entry removes only that entry: when a
\* Set of the same uid has stored a fresh entry between the Get's TTL test
\* and its removal step, the fresh entry stays in the cache (and a Get that
\* follows finds it).
C34_GetRemovesOnlyExpiredEntry == [][RemovesOnlyExpired]_vars

\* a Set of a uid the cache holds keeps the set of uids and the eviction
\* counter as they are and stores the order
ReplacesInPlace ==
    (/\ ops' = ops + 1
     /\ lastOp'.kind = "set"
     /\ lastOp'.uid \in DOMAIN orders)
    => /\ DOMAIN orders' = DOMAIN orders
       /\ evictions' = evictions
       /\ orders'[lastOp'.uid].order = pending'.order

\* C35: a Set for a uid that is already cached replaces that entry, removes
\* no other entry and counts no eviction, also when the cache holds
\* max_size entries.
C35_ReplaceEvictsNothing == [][ReplacesInPlace]_vars

(***************************************************************************)
(* Properties of the ingest pipeline, checked under SpecIngest.            *)
(***************************************************************************)
StepsNamed(tr, name) == {i \in 1..Len(tr) : tr[i].step = name}
FailedAttempts(tr) == Cardinality({i \in 1..Len(tr) : ~tr[i].ok})

\* the steps of one attempt come in the order decode, validate, save, cache,
\* each one only after the one before it succeeded in the same attempt
InOrder(tr) ==
    \A i \in 1..Len(tr) :
        LET e == tr[i]
            follows(name) ==
                /\ i > 1
                /\ tr[i - 1].step = name
                /\ tr[i - 1].ok
                /\ tr[i - 1].attempt = e.attempt
        IN  CASE e.step = "decode" ->
                    \/ i = 1 /\ e.attempt = 1
                    \/ i > 1 /\ ~tr[i - 1].ok /\ e.attempt = tr[i - 1].attempt + 1
              [] e.step = "validate" -> follows("decode")
              [] e.step = "save" -> follows("validate")
              [] e.step = "cache" -> follows("save")
              [] OTHER -> FALSE

\* C6: within one attempt the steps run in the order decode, validate, persist,
\* populate cache; the cache is populated only after the store write of that
\* attempt succeeded (its transaction committed); a message that fails decoding
\* or validation causes no store write and no cache insert.
C6_CacheOnlyAfterStoreWrite ==
    /\ InOrder(trace)
    /\ \A i \in StepsNamed(trace, "cache") : trace[i - 1].committed
    /\ (hMsg # "" /\ (~JsonOk(hMsg) \/ Validate(Decode(hMsg)) # NilErr))
          => StepsNamed(trace, "save") \cup StepsNamed(trace, "cache") = {}

\* C7: when every retry attempt for a message failed, exactly one envelope with
\* the original message bytes and the last error string is submitted to the DLQ
\* and the handler returns the processing error, also when the DLQ submit
\* fails; when processing succeeded nothing is submitted.
C7_DlqOnExhaustion ==
    handled.msg # "" =>
        IF FailedAttempts(handled.trace) = MaxAttempts
        THEN /\ handled.subs =
                    <<[message |-> handled.msg, reason |-> RetryError(handled.lastErr)]>>
             /\ handled.ret = RetryError(handled.lastErr)
        ELSE /\ handled.subs = <<>>
             /\ handled.ret = NilErr

C7_ExhaustedAndDlqFailed ==
    /\ handled.msg # ""
    /\ FailedAttempts(handled.trace) = MaxAttempts
    /\ ~handled.dlqOk
    /\ handled.ret # NilErr

\* C8: a message whose order fails validation is never retried: processing is
\* invoked exactly once for it before it goes to the DLQ.
C8_InvalidNotRetried ==
    (handled.msg # "" /\ JsonOk(handled.msg) /\ Validate(Decode(handled.msg)) # NilErr)
        => Cardinality(StepsNamed(handled.trace, "decode")) = 1

\* C9: duplicate delivery is safe: however often a valid message is processed,
\* the store holds one orders row, one delivery row, one payment row and each
\* of the order's items exactly once.
ItemRows(u) == {i \in 1..Len(dbItems) : dbItems[i].order_uid = u}
C9_DuplicateDeliverySafe ==
    \A u \in DOMAIN dbOrders :
        /\ u \in DOMAIN dbDelivery
        /\ Cardinality({t \in DOMAIN dbPayment : dbPayment[t].order_uid = u}) = 1
        /\ Cardinality(ItemRows(u)) = Len(dbOrders[u].items)

\* C10: the consumer loop does not exit because a message failed processing or
\* a broker read failed; it returns only after its context was cancelled, and
\* returns the context error.
C10_ReturnsOnlyOnCancel ==
    cPc = "returned" => (ctxDone /\ cRet = CtxCanceled)

C10_ReturnedAfterFailures ==
    /\ cPc = "returned"
    /\ sawReadErr
    /\ handled.msg # ""
    /\ handled.ret # NilErr

\* C40: SaveOrder returns nil exactly when its transaction committed (on any
\* failure, a failed commit included, it returns an error and none of its
\* rows is visible), so the cache is populated only for an order whose rows
\* were committed.
C40_SaveReportsCommit ==
    \A i \in 1..Len(trace) :
       /\ trace[i].step = "save" => (trace[i].ok <=> trace[i].committed)
       /\ trace[i].step = "cache" => hOrder.uid \in DOMAIN dbOrders

\* while a message is being handled under a cancelled context, no step
\* starts another attempt
NoNewAttemptOnceCancelled ==
    (ctxDone /\ hPc # "idle") => attempt' = attempt

\* C36: once the consumer context is cancelled, no further processing attempt
\* is made for the message in handling: the retry around processMessage stops
\* instead of sleeping the backoff and running the steps again.
C36_NoAttemptAfterConsumerCancel == [][NoNewAttemptOnceCancelled]_vars

(***************************************************************************)
(* Properties of the retry executor, checked under SpecRetry.              *)
(***************************************************************************)
Calls(log) == SelectSeq(log, LAMBDA e : e.kind = "call")
Returns(log) == SelectSeq(log, LAMBDA e : e.kind = "ret")
Sleeps(log) == SelectSeq(log, LAMBDA e : e.kind = "sleep")
AllFailed(rets) == \A i \in 1..Len(rets) : rets[i].err # NilErr

\* C11: the executor invokes op at most max_attempts times; after the first
\* invocation that returns nil there is no further invocation and the
\* executor returns nil; and when max_attempts invocations have all failed
\* it returns an error that wraps the last error op returned.
C11_BoundedAttempts ==
    LET calls == Calls(rLog)
        rets == Returns(rLog)
    IN  /\ Len(calls) <= (IF rCfg.maxAttempts > 0 THEN rCfg.maxAttempts ELSE 0)
        /\ \A i \in 1..Len(rets) :
              rets[i].err = NilErr =>
                 /\ i = Len(rets)
                 /\ Len(calls) = i
                 /\ rPc = "done"
                 /\ rRet = NilErr
        /\ (/\ rPc = "done"
            /\ rCfg.maxAttempts >= 1
            /\ Len(rets) = rCfg.maxAttempts
            /\ AllFailed(rets))
           => /\ Len(rRet) > 1
              /\ Tail(rRet) = rets[Len(rets)].err

\* every attempt failed, the last one with another error than the first
C11_ExhaustedWithChangingError ==
    LET rets == Returns(rLog)
    IN  /\ rPc = "done"
        /\ rCfg.maxAttempts >= 2
        /\ Len(rets) = rCfg.maxAttempts
        /\ AllFailed(rets)
        /\ rets[1].err # rets[Len(rets)].err

\* min(initial_delay * multiplier^e, max_delay) in whole clock units
CappedBackoff(cfg, e) ==
    LET whole == (cfg.initialDelay * Pow(cfg.multiplier.num, e))
                    \div Pow(cfg.multiplier.den, e)
    IN  IF whole < cfg.maxDelay THEN whole ELSE cfg.maxDelay

\* C12 as stated: the sleep before attempt k, for k in 2..max_attempts, lasts
\* min(initial_delay * multiplier^(k-1), max_delay), and no sleep exceeds
\* max_delay.
C12_DelayBeforeAttemptK ==
    \A i \in 1..Len(Sleeps(rLog)) :
       LET s == Sleeps(rLog)[i]
       IN  /\ s.attempt \in 2..rCfg.maxAttempts
           /\ s.delay = CappedBackoff(rCfg, s.attempt - 1)
           /\ s.delay <= rCfg.maxDelay

\* C12: the sleep before attempt k, for k in 2..max_attempts, lasts
\* min(initial_delay * multiplier^(k-2), max_delay) cut to whole units: the
\* first sleep is initial_delay; and no sleep exceeds max_delay.
C12_DelayAfterFailedAttempt ==
    \A i \in 1..Len(Sleeps(rLog)) :
       LET s == Sleeps(rLog)[i]
       IN  /\ s.attempt \in 2..rCfg.maxAttempts
           /\ s.delay = CappedBackoff(rCfg, s.attempt - 2)
           /\ s.delay <= rCfg.maxDelay

\* a sleep longer than the first one that the cap has cut
C12_GrownAndCappedSleep ==
    \E i \in 2..Len(Sleeps(rLog)) :
       LET s == Sleeps(rLog)[i]
       IN  /\ Sleeps(rLog)[1].delay = rCfg.initialDelay
           /\ s.delay > rCfg.initialDelay
           /\ s.delay = rCfg.maxDelay
           /\ calculateDelayUncapped(rCfg, s.attempt - 1) > rCfg.maxDelay

\* C13: in the context-aware executor, no invocation of op follows the
\* cancellation of the context, and when the context was cancelled before an
\* attempt or during a backoff sleep the executor returns the cancellation
\* error.
C13_NoAttemptAfterCancel ==
    rCtxAware =>
       /\ \A i \in 1..Len(rLog) : \A j \in (i + 1)..Len(rLog) :
             rLog[i].kind = "cancel" => rLog[j].kind # "call"
       /\ (/\ rPc = "done"
           /\ rCfg.maxAttempts >= 1
           /\ \E i \in 1..Len(rLog) :
                 rLog[i].kind = "cancel" /\ rLog[i].pc \in {"attempt", "sleep"})
          => rRet = CtxErr

\* the context was cancelled during the sleep after a failed attempt, and the
\* executor has returned
C13_CancelledDuringSleep ==
    /\ rCtxAware
    /\ rPc = "done"
    /\ rRet = CtxErr
    /\ Len(Calls(rLog)) >= 1
    /\ \E i \in 1..Len(rLog) : rLog[i].kind = "cancel" /\ rLog[i].pc = "sleep"

RecordedIn(state) == lastCall.kind = "record" /\ lastCall.old.state = state
CheckedIn(state) == lastCall.kind = "check" /\ lastCall.old.state = state

\* C14: a result recorded while Closed opens the breaker exactly when it is a
\* failure that brings the run of consecutive failures to failure_threshold,
\* and then next_attempt = now + timeout; a recorded success leaves the
\* breaker Closed with the failure counter at 0; so a Closed breaker has seen
\* fewer than failure_threshold failures in a row.
C14_OpensAtThreshold ==
    /\ cbState = StateClosed => closedRun < cbConfig.failureThreshold
    /\ RecordedIn(StateClosed) =>
          /\ lastCall.new.state \in {StateClosed, StateOpen}
          /\ lastCall.new.state = StateOpen <=>
                (~lastCall.success /\ lastCall.run = cbConfig.failureThreshold)
          /\ lastCall.new.state = StateOpen =>
                lastCall.new.next = lastCall.at + cbConfig.timeout
          /\ lastCall.success =>
                lastCall.new.state = StateClosed /\ lastCall.new.failures = 0

\* the second failure in a row has opened a breaker whose threshold is 2
C14_OpenedBySecondFailure ==
    /\ RecordedIn(StateClosed)
    /\ cbConfig.failureThreshold = 2
    /\ lastCall.run = 2
    /\ cbState = StateOpen
    /\ nextAttempt = lastCall.at + cbConfig.timeout

\* C15: while Open, an execute made before next_attempt is rejected, without
\* op being invoked, with the breaker error whose state is Open; an admission
\* attempt made at now >= next_attempt, now = next_attempt included, moves
\* the breaker to Half-Open with the success and request counters at 0 and
\* is admitted.
C15_OpenAdmission ==
    /\ CheckedIn(StateOpen) =>
          IF lastCall.at >= lastCall.old.next
          THEN /\ lastCall.allowed
               /\ lastCall.new.state = StateHalfOpen
               /\ lastCall.new.successes = 0
               /\ lastCall.new.requests = 0
          ELSE /\ ~lastCall.allowed
               /\ lastCall.new = lastCall.old
    /\ (/\ lastCall.kind = "reject"
        /\ lastCall.check.before = StateOpen
        /\ lastCall.check.early)
       => lastCall.errState = StateOpen /\ ~lastCall.downstream

\* C16: a failure recorded while Half-Open opens the breaker with
\* next_attempt = now + timeout; the success that brings the success count to
\* success_threshold closes it with the three counters at 0; an earlier
\* success leaves it Half-Open; and the state leaves Half-Open by no other
\* event than these two and Reset.
C16_HalfOpenRecorded ==
    RecordedIn(StateHalfOpen) =>
       /\ ~lastCall.success =>
             /\ lastCall.new.state = StateOpen
             /\ lastCall.new.next = lastCall.at + cbConfig.timeout
       /\ (lastCall.success /\ lastCall.old.successes + 1 = cbConfig.successThreshold) =>
             /\ lastCall.new.state = StateClosed
             /\ lastCall.new.failures = 0
             /\ lastCall.new.successes = 0
             /\ lastCall.new.requests = 0
       /\ (lastCall.success /\ lastCall.old.successes + 1 < cbConfig.successThreshold) =>
             lastCall.new.state = StateHalfOpen
LeavesHalfOpen ==
    (cbState = StateHalfOpen /\ cbState' # StateHalfOpen) =>
       \/ lastCall'.kind = "reset"
       \/ /\ lastCall'.kind = "record"
          /\ lastCall'.old.state = StateHalfOpen
          /\ \/ ~lastCall'.success
             \/ lastCall'.old.successes + 1 = cbConfig.successThreshold
C16_HalfOpenTransitions == [](C16_HalfOpenRecorded) /\ [][LeavesHalfOpen]_vars

\* the second success in a row has closed a Half-Open breaker whose
\* success threshold is 2
C16_ClosedBySecondSuccess ==
    /\ RecordedIn(StateHalfOpen)
    /\ cbConfig.successThreshold = 2
    /\ lastCall.old.successes = 1
    /\ lastCall.success
    /\ cbState = StateClosed
    /\ failureCount = 0 /\ successCount = 0 /\ requestCount = 0

\* C17: in one Half-Open episode at most max_requests ops are admitted, also
\* with concurrent callers.
C17_HalfOpenAdmissionsBounded == hoStarted <= cbConfig.maxRequests

\* C18: once the breaker is Open and every op from now on succeeds, callers
\* that keep calling bring it back to Closed.
C18_RecoversToClosed == (cbState = StateOpen /\ failBudget = 0) ~> (cbState = StateClosed)

\* C19: a request the breaker refuses is answered by the on-open handler
\* (503 by default) without the downstream handler being invoked; a
\* downstream status >= 500 is recorded as a failure, any other as a success.
C19_RefusedAnsweredByOnOpen ==
    /\ lastCall.kind = "reject" =>
          /\ ~lastCall.downstream
          /\ lastCall.via = "onOpen"
          /\ lastCall.status = 503
    /\ lastCall.kind = "record" => (lastCall.success <=> lastCall.status < 500)

\* the state in which a call was admitted: the one its check found, or
\* Half-Open when the check itself moved the breaker there from Open
AdmittedState(check) ==
    IF check.before = StateOpen THEN StateHalfOpen ELSE check.before

\* C37: the result of an op counts for the state in which the op was
\* admitted: recorded after the breaker has left that state (an op admitted
\* while Closed that ends when the breaker is Open or Half-Open, or one that
\* ends after a Reset), it changes neither the state nor the counters, so it
\* is no Half-Open trial and neither closes nor re-opens the breaker.
C37_RecordedForAdmittingState ==
    (lastCall.kind = "record" /\ AdmittedState(lastCall.check) # lastCall.old.state)
        => lastCall.new = lastCall.old

\* C38: every request that goes through the adapter gets exactly one
\* response written; after a downstream handler that answered with a status
\* >= 500 the adapter records the failure and writes nothing more.
C38_OneResponsePerRequest ==
    lastCall.kind \in {"record", "reject"} =>
       /\ Len(lastCall.writes) = 1
       /\ (lastCall.kind = "record" /\ lastCall.status >= 500) =>
             (~lastCall.success /\ lastCall.writes = <<"downstream">>)

(***************************************************************************)
(* Properties of the rate limiter, checked under SpecLimiter.              *)
(***************************************************************************)
\* the number of Allow calls for key that returned true in [from, from + window)
AdmittedIn(key, from) ==
    Cardinality({i \in 1..Len(admitted[key]) :
                    /\ from <= admitted[key][i]
                    /\ admitted[key][i] < from + tbConfig.window})

\* C20: with the token bucket, for every key and every interval of length
\* window, at most burst + requests Allow calls return true, whatever Allow
\* and Reset calls are made and whenever.
C20_AdmittedPerWindowBounded ==
    algorithm = "token-bucket" =>
       \A key \in Keys : \A from \in 0..MaxLimiterTime :
          AdmittedIn(key, from) <= tbConfig.burst + tbConfig.requests

\* C21: with the token bucket, no bucket ever holds more than burst tokens,
\* a bucket just created or just reset included; an Allow call finds at most
\* burst tokens, takes exactly one token when it returns true and none when
\* it returns false.
C21_TokensWithinBurst ==
    algorithm = "token-bucket" =>
       /\ \A key \in DOMAIN buckets : buckets[key].tokens <= Tokens(tbConfig.burst)
       /\ lastLim.kind = "allow" =>
             /\ lastLim.before <= Tokens(tbConfig.burst)
             /\ lastLim.ok => lastLim.after = lastLim.before - Tokens(1)
             /\ ~lastLim.ok => lastLim.after = lastLim.before

\* the position of key's latest Reset among its admissions, 0 when it has none
LastResetOf(key) ==
    LET marks == {i \in 1..Len(admitted[key]) : admitted[key][i] = ResetMark}
    IN  IF marks = {} THEN 0 ELSE CHOOSE i \in marks : \A j \in marks : j <= i

\* the number of Allow calls for key that returned true in [from, from + window)
\* since the key's latest Reset
AdmittedSinceReset(key, from) ==
    Cardinality({i \in (LastResetOf(key) + 1)..Len(admitted[key]) :
                    /\ from <= admitted[key][i]
                    /\ admitted[key][i] < from + tbConfig.window})

\* the starts of the windows the clock is cut into
WindowStarts == {from \in 0..MaxLimiterTime : from % tbConfig.window = 0}

C23_IdleKeysSwept ==
    (algorithm = "token-bucket" /\ lastLim.kind = "cleanup" /\ lastLim.at = tbNow) =>
       \A key \in DOMAIN buckets : ~(lastSeen[key] < tbNow - 2 * tbConfig.window)

(***************************************************************************)
(* Properties of the HTTP server, checked under SpecApi.                   *)
(***************************************************************************)
\* C24: a GET /order/{uid} with an empty uid is answered 400 without looking
\* at cache or store; after a cache hit the answer is 200 with the cached
\* order and the store is not asked; after a miss the store is asked, and
\* the answer is 200 with the order it returned, or 404 when it returned an
\* error or no order.
C24_ReadPathResolution ==
    lastResp.route = "getOrder" =>
       /\ lastResp.uid = "" <=> lastResp.status = StatusBadRequest
       /\ lastResp.status = StatusBadRequest =>
             ~lastResp.cacheLooked /\ ~lastResp.storeLooked
       /\ lastResp.uid # "" =>
             /\ lastResp.cacheLooked
             /\ lastResp.cacheHit <=> ~lastResp.storeLooked
       /\ lastResp.cacheHit =>
             /\ lastResp.status = StatusOK
             /\ ~lastResp.body.nil /\ lastResp.body.uid = lastResp.uid
       /\ lastResp.storeLooked =>
             IF lastResp.found.nil
             THEN lastResp.status = StatusNotFound /\ lastResp.body.nil
             ELSE /\ lastResp.status = StatusOK
                  /\ lastResp.body = lastResp.found
                  /\ lastResp.body.uid = lastResp.uid

\* a request missed the cache, the store held no such order, the answer is 404
C24_MissAndNoStoreRow ==
    /\ lastResp.route = "getOrder"
    /\ lastResp.storeLooked
    /\ lastResp.status = StatusNotFound
    /\ ~HasRow(lastResp.uid)

\* when the read path has answered from the store, the order is in the cache
C25_FilledIsCached ==
    (~lastFill.order.nil /\ lastFill.getter = 0 /\ ~lastFill.followed) =>
       /\ lastFill.order.uid \in DOMAIN orders
       /\ orders[lastFill.order.uid].order = lastFill.order

\* this step completes the Get that directly follows the read path's fill
CompletesGetAfterFill ==
    /\ ~lastFill.order.nil
    /\ ~lastFill.followed
    /\ hits' + misses' # hits + misses
    /\ \E t \in Threads :
          /\ lastGet'.thread = t
          /\ lastGet'.uid = lastFill.order.uid
          /\ IF lastFill.getter = 0 THEN getPc[t] = "idle" ELSE lastFill.getter = t

\* the Get that directly follows the read path's fill, no time having passed,
\* is a hit: one more hit, no more misses
FillThenGet ==
    (CompletesGetAfterFill /\ now = lastFill.at)
        => /\ lastGet'.hit
           /\ lastGet'.order = lastFill.order
           /\ hits' = hits + 1
           /\ misses' = misses

\* C25: after a GET /order/{uid} that missed the cache and found the order in
\* the store, the order is in the cache, and a Get of that uid that follows
\* directly is a hit: hits grows by one and misses stays.
C25_FillThenGetHits == [](C25_FilledIsCached) /\ [][FillThenGet]_vars

\* the Get that directly followed a fill of the read path was a hit
C25_GetAfterFillWasHit ==
    /\ lastFill.followed
    /\ lastGet.hit
    /\ lastGet.order = lastFill.order
    /\ lastResp.cacheHit
    /\ lastResp.body = lastFill.order
    /\ hits = 1
    /\ misses = 1

\* C26: every order the cache holds is the store's record for its uid: the
\* store has a row for the uid and the cached order equals the stored one.
C26_CacheMirrorsStore ==
    \A uid \in DOMAIN orders :
       /\ HasRow(uid)
       /\ \E tx \in PaymentsOf(uid) : orders[uid].order = StoredOrder(uid, tx)

\* C27: a GET /order/{uid} request reaches the route handler through the
\* rate limiter and then the circuit breaker; a GET /health request reaches
\* it through neither.
C27_GatedByLimiterThenBreaker ==
    /\ lastResp.route = "getOrder" =>
          lastResp.via = <<"ratelimit", "circuitbreaker", "api">>
    /\ lastResp.route = "health" => lastResp.via = <<"api">>

C29_StopReturnsAtDeadline ==
    (lCall = "Stop" /\ mPc = "wait" /\ StopCtxDone) ~> (mPc = "returned")

(***************************************************************************)
(* Properties of the shutdown, checked under SpecShutdown.                 *)
(***************************************************************************)
\* C30: the store pool, the broker reader and the DLQ service are closed only
\* when the consumer loop has exited, no message being in processing or in a
\* retry sleep.
C30_ClosedAfterTasksStopped ==
    (\E i \in 1..Len(closed) : closed[i] \in {"db", "reader", "dlq"}) =>
       (cPc = "returned" /\ hPc = "idle")

(***************************************************************************)
(* Properties of the validator, checked under SpecValidate.                *)
(***************************************************************************)
\* the sum of the items' total_price as a number, without wrap-around
RECURSIVE TotalOf(_)
TotalOf(items) ==
    IF items = <<>> THEN 0 ELSE Head(items).total_price + TotalOf(Tail(items))

\* C31: Validate returns an error for every order in which goods_total +
\* delivery_cost differs from amount or the sum of the items' total_price
\* differs from goods_total, whatever its other fields hold; when it returns
\* nil both equalities hold.
C31_RejectsInconsistentTotals ==
    (vPc = "returned" /\ ~vOrder.nil) =>
       /\ vOrder.goods_total + vOrder.delivery_cost # vOrder.amount => vRet # NilErr
       /\ TotalOf(vOrder.items) # vOrder.goods_total => vRet # NilErr
       /\ vRet = NilErr =>
             /\ vOrder.goods_total + vOrder.delivery_cost = vOrder.amount
             /\ TotalOf(vOrder.items) = vOrder.goods_total

\* an order that is in order but for the sum of its items is rejected by the
\* cross-check alone
C31_RejectedForItemSumOnly ==
    /\ vPc = "returned"
    /\ vOrder.fmtOk
    /\ vOrder.goods_total + vOrder.delivery_cost = vOrder.amount
    /\ TotalOf(vOrder.items) # vOrder.goods_total
    /\ vRet = Errorf("validation failed",
                     <<"business logic: sum of items total_price does not match payment goods_total">>)

\* C32: once DLQService.Close has closed the reader, ProcessDLQ stops: the
\* first read error on the closed reader ends its loop, and no second one
\* is met.
C32_DlqProcessorStopsOnClose ==
    /\ dErrsClosed <= 1
    /\ dErrsClosed = 1 => dPc = "returned"

(***************************************************************************)
(* Properties of the cache's locking, checked under SpecLocks.             *)
(***************************************************************************)
\* the lock goroutine t is about to take can be taken
LkCanStep(t) ==
    CASE lkPc[t] \in {"set:incEvictions", "cleanup:incExpirations",
                      "get:incExpirations", "get:incMisses", "get:incHits"} -> StatsFree
      [] lkPc[t] \in {"stats:size", "get:delete"} -> CmuFree
      [] OTHER -> TRUE

\* C33: the cache does not deadlock: whenever calls are in progress one of
\* them can take its next step, so every call returns; GetStats next to an
\* evicting Set or an expiring sweep included.
C33_CacheDeadlockFree ==
    (\E t \in Threads : lkPc[t] # "idle") =>
       \E t \in Threads : lkPc[t] # "idle" /\ LkCanStep(t)

====
